---------------------------- MODULE Spec2Model ----------------------------
(***************************************************************************)
(* A model of the ledger consistency engine of src/bot.py: the derived     *)
(* column calculator (apply_tx_row), the balance chain maintainer          *)
(* (_prev_balance, _recalc_balance_chain), the duplicate detector          *)
(* (_find_duplicate_tx, _check_all_duplicates, _flag_duplicate), the       *)
(* invoice state machine (apply_inv_update, add_new_invoice) and the       *)
(* mutation API (write_to_excel, apply_transaction_update, apply_edit).    *)
(*                                                                         *)
(* Representation.                                                         *)
(*  - Text (payee, description, notes, refs, invoice numbers) is a         *)
(*    sequence of one-character strings, so that lower(), split(), strip() *)
(*    and the substring test `in` are computed, not assumed.               *)
(*  - Money is an integer number of cents (every stored money cell is      *)
(*    round(x, 2)).  An fx rate is an integer number of millionths         *)
(*    (FxScale); a commission rate an integer number of ten-thousandths    *)
(*    (CommScale).  round() is round-half-even on the exact quotient; the  *)
(*    binary representation error of Python floats is modelled where it    *)
(*    decides a comparison of the inputs used here (RoundsBelow).          *)
(*  - A date cell is an integer: 0 is the empty string, a positive number  *)
(*    the day ordinal of a well-formed DD.MM.YYYY string, a negative       *)
(*    number a non-empty string that no format of _parse_date accepts.     *)
(*  - An optional numeric input of a change-request is a record            *)
(*    [k, v]: k = "none" (absent / None), "num" (a number v) or "bad"      *)
(*    (a string float() rejects).                                          *)
(*  - A worksheet is the sequence of its data rows; element i is Excel row *)
(*    i + HeaderRows.                                                      *)
(***************************************************************************)
EXTENDS Integers, Sequences, FiniteSets, TLC

(***************************************************************************)
(* Text primitives                                                         *)
(***************************************************************************)
Uppers == <<"A","B","C","D","E","F","G","H","I","J","K","L","M",
            "N","O","P","Q","R","S","T","U","V","W","X","Y","Z">>
Lowers == <<"a","b","c","d","e","f","g","h","i","j","k","l","m",
            "n","o","p","q","r","s","t","u","v","w","x","y","z">>

\* the character of `to` at the position c has in `from`, c itself if it has none
MapChar(c, from, to) ==
    IF \E i \in 1..Len(from) : from[i] = c
    THEN to[CHOOSE i \in 1..Len(from) : from[i] = c]
    ELSE c

LowerChar(c) == MapChar(c, Uppers, Lowers)

\* str.lower()
Lower(s) == [i \in 1..Len(s) |-> LowerChar(s[i])]

UpperChar(c) == MapChar(c, Lowers, Uppers)

\* str.upper()
Upper(s) == [i \in 1..Len(s) |-> UpperChar(s[i])]

\* the least element of a finite set of positive numbers, 0 for the empty set
FirstOf(S) == IF S = {} THEN 0 ELSE CHOOSE i \in S : \A j \in S : i <= j

\* the greatest element of a finite set of positive numbers, 0 for the empty set
LastOf(S) == IF S = {} THEN 0 ELSE CHOOSE i \in S : \A j \in S : j <= i

\* the position of the first occurrence of sub in s at or after from; 0 if none
Find(sub, s, from) ==
    FirstOf({ i \in from..(Len(s) - Len(sub) + 1) :
                SubSeq(s, i, i + Len(sub) - 1) = sub })

\* Python's `sub in s`
Contains(sub, s) == Find(sub, s, 1) # 0

\* s.replace(old, new)
RECURSIVE ReplaceAt(_, _, _, _)
ReplaceAt(s, old, new, p) ==
    IF p = 0 \/ old = <<>> THEN s
    ELSE LET rest == SubSeq(s, p + Len(old), Len(s))
         IN  SubSeq(s, 1, p - 1) \o new \o ReplaceAt(rest, old, new, Find(old, rest, 1))

Replace(s, old, new) == ReplaceAt(s, old, new, Find(old, s, 1))

\* s.strip(chars)
RECURSIVE LStrip(_, _)
LStrip(s, cs) ==
    IF s # <<>> /\ Head(s) \in cs THEN LStrip(Tail(s), cs) ELSE s

RECURSIVE RStrip(_, _)
RStrip(s, cs) ==
    IF s # <<>> /\ s[Len(s)] \in cs THEN RStrip(SubSeq(s, 1, Len(s) - 1), cs) ELSE s

StripChars(s, cs) == RStrip(LStrip(s, cs), cs)

\* s.strip()
Strip(s) == StripChars(s, {" "})

\* s.split(): the whitespace-separated words of s
RECURSIVE SplitAt(_, _)
SplitAt(t, e) ==
    IF t = <<>> THEN <<>>
    ELSE IF e = 0 THEN <<t>>
    ELSE LET rest == LStrip(SubSeq(t, e + 1, Len(t)), {" "})
         IN  <<SubSeq(t, 1, e - 1)>> \o SplitAt(rest, Find(<<" ">>, rest, 1))

SplitStripped(t) == SplitAt(t, Find(<<" ">>, t, 1))

Split(s) == SplitStripped(LStrip(s, {" "}))

\* the part of s before position p, all of s when p = 0
Before(s, p) == IF p = 0 THEN s ELSE SubSeq(s, 1, p - 1)

\* s.split(sep)[0]
SplitHead(s, sep) == Before(s, Find(sep, s, 1))

\* s.split(sep)[1], for an s that contains sep
SplitSecond(s, sep) == SplitHead(SubSeq(s, Find(sep, s, 1) + Len(sep), Len(s)), sep)

\* the elements of a sequence of words that are longer than 3 characters
LongOf(ws) == { ws[i] : i \in { j \in 1..Len(ws) : Len(ws[j]) > 3 } }

\* [w for w in s.split() if len(w) > 3]
LongWords(s) == LongOf(Split(s))

(***************************************************************************)
(* Numbers                                                                 *)
(***************************************************************************)
\* units of the representation: millionths for rates, ten-thousandths for commission
FxScale   == 10 ^ 6
CommScale == 10 ^ 4

Abs(x) == IF x < 0 THEN -x ELSE x
Max(a, b) == IF a >= b THEN a ELSE b

\* round(a / b) to the nearest integer, ties to even, for b > 0
RoundNat(n, b) ==
    IF 2 * (n % b) > b \/ (2 * (n % b) = b /\ (n \div b) % 2 = 1)
    THEN (n \div b) + 1 ELSE n \div b

RoundDiv(a, b) == IF a < 0 THEN -RoundNat(-a, b) ELSE RoundNat(a, b)

RECURSIVE GCD(_, _)
GCD(a, b) == IF b = 0 THEN a ELSE GCD(b, a % b)

\* round(a * s / d) for s, d > 0: the common factor of s and d is cancelled
\* first, which leaves the quotient as it is and keeps the product small
RoundReduced(a, s, d, g) == RoundDiv(a * (s \div g), d \div g)

RoundMulDiv(a, s, d) == RoundReduced(a, s, d, GCD(s, d))

\* round(fx, 5) of a rate held in millionths
Round5(fx) == RoundDiv(fx, 10) * 10

\* float(x or 0) inside try/except, and `x if isinstance(x, (int, float)) else 0`:
\* anything but a number reads as 0
AmountOf(a) == IF a.k = "num" THEN a.v ELSE 0

NoneV   == [k |-> "none", v |-> 0]
BadV    == [k |-> "bad",  v |-> 0]
Num(n)  == [k |-> "num",  v |-> n]

\* Python truthiness of an optional numeric input: None and 0 are falsy, a
\* non-empty string (also one float() rejects) is truthy
Truthy(x) == x.k = "bad" \/ (x.k = "num" /\ x.v # 0)

(***************************************************************************)
(* Literal texts of the source.  Non-ASCII literals are written as short   *)
(* ASCII stand-ins that keep what the code looks at: the separator " | ",  *)
(* the marker "ref: " and the words the code searches for.                 *)
(***************************************************************************)
Sep      == <<" ", "|", " ">>                       \* " | "
RefTag   == <<"r", "e", "f", ":", " ">>             \* "ref: "
Pipe     == <<"|">>
Dash     == <<" ", "-", " ">>                       \* " — " in the description
\* "Автозапись из инвойса (SWIFT)" and "Автозапись из инвойса (инвойс)"
AutoSwift == <<"A", "v", "t", "o", " ", "(", "S", "W", "I", "F", "T", ")">>
AutoInv   == <<"A", "v", "t", "o", " ", "(", "i", "n", "v", ")">>
\* "POSSIBLE DUPLICATE" and the flag " | ⚠ POSSIBLE DUPLICATE — проверить!"
PossDup  == <<"P", "O", "S", "S", "I", "B", "L", "E", " ",
              "D", "U", "P", "L", "I", "C", "A", "T", "E">>
DupFlag  == Sep \o <<"!", " ">> \o PossDup
\* "CONFIRMED", "UNCONFIRMED", "⚠ UNCONFIRMED — ", "✅ CONFIRMED — ", "✅ "
Confirmed   == <<"C", "O", "N", "F", "I", "R", "M", "E", "D">>
Unconfirmed == <<"U", "N">> \o Confirmed
WarnUnconf  == <<"!", " ">> \o Unconfirmed \o Dash
OkConf      == <<"+", " ">> \o Confirmed \o Dash
OkMark      == <<"+", " ">>
\* "Agent did NOT confirm", "Agent CONFIRMED", "FOLLOW UP!"
AgentNot    == <<"A", "g", "e", "n", "t", " ", "d", "i", "d", " ", "N", "O", "T", " ",
                 "c", "o", "n", "f", "i", "r", "m">>
AgentConf   == <<"A", "g", "e", "n", "t", " ">> \o Confirmed
FollowUp    == <<"F", "O", "L", "L", "O", "W", " ", "U", "P", "!">>
\* "⏳ ПРЕДВ. КУРС" and "⏳ PRELIMINARY RATE"
PrelimRu    == <<"~", " ", "P", "R", "E", "D", "V">>
PrelimEn    == <<"~", " ", "P", "R", "E", "L", "I", "M", "I", "N", "A", "R", "Y", " ",
                 "R", "A", "T", "E">>
\* " | Курс подтверждён агентом: {fx}" (the digits of the rate are not kept)
FxConfirmed == Sep \o <<"f", "x", " ", "o", "k">>
\* " | Подтверждено агентом {ts}" (the timestamp is not kept)
TsConfirmed == Sep \o <<"o", "k", " ", "t", "s">>

\* _AGENT_CO_TOKENS
AgentCoTokens ==
    { <<"b","a","l","k","e","m","y">>, <<"t","r","o","v","e","c","o">>,
      <<"e","l","i","t","e","s","p","h","e","r","e">>,
      <<"r","a","w","r","i","m","a">>, <<"m","a","s","a","d","a","n">>,
      <<"g","o","r","n","i","k">>,
      <<"n","e","x","u","s"," ","m","a","r","i","n","e">>,
      <<"a","s","t","e","n","o">> }

\* is_agent_company_str
is_agent_company_str(val) ==
    /\ val # <<>>
    /\ \E token \in AgentCoTokens : Contains(token, Lower(val))

(***************************************************************************)
(* The workbook: Settings (FX table, opening balance) and the two sheets   *)
(***************************************************************************)
HeaderRows == 4      \* data rows start at Excel row 5 (min_row=5, start=5)
DupDays    == 10     \* date proximity of the duplicate detector

\* Settings!A7:B25, the currency -> rate table, in millionths
FxCcys  == {"RUB", "EUR", "USDT"}
FxTable == [c \in FxCcys |->
              CASE c = "RUB" -> 90 * FxScale
                [] c = "EUR" -> 920000
                [] OTHER     -> FxScale]

\* a variant of get_fx without the fallback: no rate for a currency the table lacks
get_fx_strict(ccy) == IF ccy \in FxCcys THEN FxTable[ccy] ELSE 0

\* _get_fx: the Settings rate, 1.0 for a currency the table lacks
get_fx(ccy) == IF ccy \in FxCcys THEN FxTable[ccy] ELSE FxScale

\* _get_comm
get_comm(tp, ccy) ==
    IF ccy = "RUB" THEN 40
    ELSE IF tp \in {"Deposit", "Cash In"} THEN 0 ELSE 50

\* _parse_date: 0 stands for None
parse_date(s) == IF s > 0 THEN s ELSE 0

\* find_last_row: every row of the sequence holds a type (col B), so the last
\* data row is the last row of the sequence
find_last_row(ws) == HeaderRows + Len(ws)

\* the last numeric balance in Excel rows 5 .. r-1, 0.0 when there is none
BalAt(ws, i) == IF i = 0 THEN 0 ELSE ws[i].bal.v

LastNumericBal(ws, r) ==
    BalAt(ws, LastOf({ i \in 1..(r - 1 - HeaderRows) :
                         i <= Len(ws) /\ ws[i].bal.k = "num" }))

\* _prev_balance
prev_balance(ws, r) == LastNumericBal(ws, r)

\* get_balance_from_excel: (last_bal, last_date) of the last row whose balance
\* cell is a number, returned only `if last_bal`; None otherwise
NoBalance == [k |-> "none", bal |-> 0, date |-> 0]

BalanceOf(ws, i) ==
    IF i = 0 \/ BalAt(ws, i) = 0 THEN NoBalance
    ELSE [k |-> "some", bal |-> ws[i].bal.v, date |-> ws[i].date]

get_balance_from_excel(d) ==
    IF ~d.exists THEN NoBalance
    ELSE BalanceOf(d.wst, LastOf({ i \in 1..Len(d.wst) : d.wst[i].bal.k = "num" }))

\* gross and net of a row, as apply_tx_row, apply_transaction_update and
\* apply_edit all compute them
GrossOf(amt, fx) == IF fx # 0 THEN RoundMulDiv(amt, FxScale, fx) ELSE amt

\* a variant of NetOf that leaves the sign and the kind out
NetOfUnsigned(tp, gross, comm) ==
    RoundMulDiv(gross, CommScale, Max(CommScale - comm, 1))

NetOf(tp, gross, comm) ==
    IF tp \in {"Deposit", "Cash In"} THEN gross
    ELSE -RoundMulDiv(gross, CommScale, Max(CommScale - comm, 1))


\* apply_tx_row raises ValueError when a truthy fx_rate or comm is not a number
tx_raises(tx) == tx.fx_rate.k = "bad" \/ tx.comm.k = "bad"

\* apply_tx_row(ws, r, tx) for r = find_last_row(ws) + 1, the only use
\* the row apply_tx_row writes, given the values it computed
TxRow(tx, amt, fx, comm, gross, net, prev) ==
    [date |-> tx.date, type |-> tx.type, description |-> tx.description,
     payee |-> tx.payee, ccy |-> tx.ccy, amount |-> amt,
     fx |-> Round5(fx), gross |-> gross, comm |-> comm,
     net |-> Num(net), bal |-> Num(prev + net), notes |-> tx.notes,
     payer |-> tx.payer,
     benef |-> IF tx.beneficiary # <<>> /\ ~is_agent_company_str(tx.beneficiary)
               THEN tx.beneficiary ELSE <<>>]

TxRowGross(tx, amt, fx, comm, gross, prev) ==
    TxRow(tx, amt, fx, comm, gross, NetOf(tx.type, gross, comm), prev)

TxRowRated(tx, amt, fx, comm, prev) ==
    TxRowGross(tx, amt, fx, comm, GrossOf(amt, fx), prev)

apply_tx_row(ws, r, tx) ==
    Append(ws,
      TxRowRated(tx, AmountOf(tx.amount),
                 IF Truthy(tx.fx_rate) THEN tx.fx_rate.v ELSE get_fx(tx.ccy),
                 IF Truthy(tx.comm) THEN tx.comm.v ELSE get_comm(tx.type, tx.ccy),
                 prev_balance(ws, r)))

\* a variant of the loop that adds each row's net to the balance the row holds
RECURSIVE RecalcDrift(_, _, _)
RecalcDrift(ws, i, prev) ==
    IF i > Len(ws) \/ ws[i].date = 0 THEN ws
    ELSE RecalcDrift([ws EXCEPT ![i].bal = Num(AmountOf(@) + AmountOf(ws[i].net))],
                     i + 1, prev)

\* the loop of _recalc_balance_chain from index i on, with prev the running balance
RECURSIVE RecalcLoop(_, _, _)
RecalcLoop(ws, i, prev) ==
    IF i > Len(ws) \/ ws[i].date = 0 THEN ws
    ELSE RecalcLoop([ws EXCEPT ![i].bal = Num(prev + AmountOf(ws[i].net))], i + 1,
                    prev + AmountOf(ws[i].net))

\* _recalc_balance_chain(ws, from_row); opening is Settings!C4
\* prev_bal after `if prev_bal == 0.0: ... prev_bal = float(s)`
OrOpening(last, opening) == IF last = 0 /\ opening # 0 THEN opening ELSE last

recalc_balance_chain(ws, from_row, opening) ==
    RecalcLoop(ws, from_row - HeaderRows,
               OrOpening(LastNumericBal(ws, from_row), opening))

(***************************************************************************)
(* Duplicate detector                                                      *)
(***************************************************************************)
\* the ref a row's notes carry, as _find_duplicate_tx reads it back:
\* notes.split("ref: ")[1].split("|")[0].strip().split()[0], "" on any failure
FirstWord(ws) == IF ws = <<>> THEN <<>> ELSE ws[1]

ExistingRefLo(lo) ==
    IF ~Contains(RefTag, lo) THEN <<>>
    ELSE FirstWord(Split(Strip(SplitHead(SplitSecond(lo, RefTag), Pipe))))

ExistingRef(notes) == ExistingRefLo(Lower(notes))

\* rule 2: a word longer than 3 characters of the payee occurs in the row's
\* payee or description
PayeeMatch(payee_lo, row) ==
    \E w \in LongWords(payee_lo) :
        Contains(w, Lower(row.payee)) \/ Contains(w, Lower(row.description))

\* the pairs <<r_amt, amount>> (in cents) exactly 1% apart, among the amounts
\* used below, for which abs(r_amt - amount) / max(amount, 1) evaluates in
\* binary64 to less than 0.01: abs(3.03 - 3.0) / 3.0 is 0.009999999999999934
RoundsBelow == { <<303, 300>> }

\* rule 3: same currency, amount > 0 and within 1% (relative to max(amount, 1.0))
AmtMatch(row, ccy, amount) ==
    /\ row.ccy = ccy
    /\ amount > 0
    /\ \/ Abs(row.amount - amount) * 100 < Max(amount, 100)
       \/ <<row.amount, amount>> \in RoundsBelow

\* rule 4: within DupDays days when both dates parse
DateMatch(row, date_str) ==
    (parse_date(date_str) # 0 /\ parse_date(row.date) # 0)
        => Abs(parse_date(row.date) - parse_date(date_str)) <= DupDays

\* rule 5: a supplied ref against a different non-empty ref in the notes
RefsDiffer(existing_ref, ref_lo) ==
    ref_lo # <<>> /\ existing_ref # <<>> /\ existing_ref # ref_lo

RefExcluded(row, ref_lo) == RefsDiffer(ExistingRef(row.notes), ref_lo)

IsDuplicateOf(row, payee_lo, ccy, amount, date_str, ref_lo) ==
    /\ row.date # 0
    /\ row.type \in {"Payment", "Deposit"}
    /\ PayeeMatch(payee_lo, row)
    /\ AmtMatch(row, ccy, amount)
    /\ DateMatch(row, date_str)
    /\ ~RefExcluded(row, ref_lo)

\* _find_duplicate_tx: the Excel row of the first duplicate, 0 for None
\* the Excel row of a sheet index, 0 (None) for index 0
RowOf(i) == IF i = 0 THEN 0 ELSE HeaderRows + i

find_duplicate_lo(wst, payee_lo, ccy, amount, date_str, ref_lo) ==
    RowOf(FirstOf({ i \in 1..Len(wst) :
                      IsDuplicateOf(wst[i], payee_lo, ccy, amount, date_str, ref_lo) }))

find_duplicate_tx(wst, payee, ccy, amount, date_str, ref) ==
    find_duplicate_lo(wst, Strip(Lower(payee)), ccy, amount, date_str, Strip(Lower(ref)))

\* the pair test of _check_all_duplicates for rows a (earlier) and b (later)
ScanPair(a, b) ==
    /\ a.type \in {"Payment", "Deposit"} /\ b.type \in {"Payment", "Deposit"}
    /\ a.ccy = b.ccy /\ a.amount # 0
    /\ ~(Abs(a.amount - b.amount) * 100 > Max(a.amount, 100))
    /\ ~(/\ parse_date(a.date) # 0 /\ parse_date(b.date) # 0
         /\ Abs(parse_date(a.date) - parse_date(b.date)) > DupDays)
    /\ \E w \in LongWords(Lower(IF a.payee # <<>> THEN a.payee ELSE a.description)) :
          Contains(w, Lower(IF b.payee # <<>> THEN b.payee ELSE b.description))

\* _check_all_duplicates: the flagged pairs <<ra, rb>> of Excel rows, in the
\* order the nested loops produce them
check_all_duplicates(wst) ==
    { <<HeaderRows + p[1], HeaderRows + p[2]>> :
        p \in { q \in (1..Len(wst)) \X (1..Len(wst)) :
                  /\ wst[q[1]].date # 0 /\ wst[q[2]].date # 0
                  /\ q[1] < q[2] /\ ScanPair(wst[q[1]], wst[q[2]]) } }

\* the notes cell after _flag_duplicate touched it
FlagNotes(cur) ==
    IF Contains(PossDup, cur) THEN cur ELSE StripChars(cur \o DupFlag, {" ", "|"})

\* a variant of flag_duplicates that resolves the findings itself: the later
\* row of every pair is removed from the sheet
flag_resolving(wst, pairs) ==
    LET keep == { i \in 1..Len(wst) : ~\E p \in pairs : i + HeaderRows = p[2] }
    IN  [k \in 1..Cardinality(keep) |->
            wst[CHOOSE i \in keep : Cardinality({ j \in keep : j <= i }) = k]]

\* _flag_duplicate for every pair of the scan (the order of the pairs does not
\* change the result: a row is flagged once)
flag_duplicates(wst, pairs) ==
    [i \in 1..Len(wst) |->
        IF \E p \in pairs : i + HeaderRows \in {p[1], p[2]}
        THEN [wst[i] EXCEPT !.notes = FlagNotes(@)] ELSE wst[i]]

(***************************************************************************)
(* Invoice state machine and auto-linker                                   *)
(***************************************************************************)
\* An invoice amount cell is [k, v] with k = "num", "tbc" (the text "TBC") or
\* "none"; float(cell or 0) inside try/except reads anything but a number as 0.0
InvAmt(cell) == IF cell.k = "num" THEN cell.v ELSE 0

\* the row test of the first loop of apply_inv_update (invoice number in either
\* direction, or the stored payment reference in either direction)
InvNoCells(inv_no, cell_inv, cell_ref) ==
    /\ inv_no # <<>>
    /\ \/ Contains(inv_no, cell_inv)
       \/ (cell_inv # <<>> /\ Contains(cell_inv, inv_no))
       \/ (cell_ref # <<>> /\ (Contains(inv_no, cell_ref) \/ Contains(cell_ref, inv_no)))

InvNoMatch(inv_no, row) ==
    InvNoCells(inv_no, Strip(Lower(row.invoice_no)), Strip(Lower(row.ref)))

\* the row test of the payee fallback loop
FallbackCells(upd, row, payee_hint, cell_payee) ==
    /\ row.date # 0 \/ row.invoice_no # <<>>
    /\ row.status # "Paid"
    /\ cell_payee # <<>>
    /\ \E w \in LongWords(payee_hint) : Contains(w, cell_payee)
    /\ Truthy(upd.swift_amount) =>
          /\ upd.swift_amount.k = "num"
          /\ row.amount.k # "tbc"
          /\ ~(Abs(upd.swift_amount.v - InvAmt(row.amount)) * 100
                 > Max(upd.swift_amount.v, 100))

FallbackMatch(upd, row) ==
    FallbackCells(upd, row, Strip(Lower(upd.payee)), Strip(Lower(row.payee)))

\* the index of the invoice row the update acts on, 0 when none; "first" says
\* whether the first loop (invoice number / reference) found it
PickMatch(by_no, by_payee) ==
    IF by_no # 0 THEN [i |-> by_no, first |-> TRUE]
    ELSE [i |-> by_payee, first |-> FALSE]

\* a variant of MatchedByNo that takes the last matching row of the register
LastMatchedByNo(ws, inv_no) == LastOf({ i \in 1..Len(ws) : InvNoMatch(inv_no, ws[i]) })

MatchedByNo(ws, inv_no) == FirstOf({ i \in 1..Len(ws) : InvNoMatch(inv_no, ws[i]) })

MatchedByPayee(ws, upd) ==
    IF Strip(Lower(upd.payee)) # <<>> /\ upd.new_status = "Paid"
    THEN FirstOf({ i \in 1..Len(ws) : FallbackMatch(upd, ws[i]) }) ELSE 0

MatchedInvoice(ws, upd) ==
    PickMatch(MatchedByNo(ws, Strip(Lower(upd.invoice_no))), MatchedByPayee(ws, upd))

\* the status, date_paid, ref (and, in the first loop only, beneficiary) writes
MarkInvoice(row, upd, first) ==
    [row EXCEPT
       !.status    = upd.new_status,
       !.date_paid = upd.date_paid,
       !.ref       = IF upd.ref # <<>> THEN upd.ref ELSE @,
       !.benef     = IF first /\ upd.beneficiary # <<>>
                        /\ ~is_agent_company_str(upd.beneficiary)
                     THEN upd.beneficiary ELSE @]

\* a variant of Settlement in which the invoice's own amount has priority
SettlementInvFirst(row, upd) ==
    IF InvAmt(row.amount) # 0
    THEN [src |-> "inv", amt |-> InvAmt(row.amount), ccy |-> row.ccy, date |-> upd.date_paid]
    ELSE IF Truthy(upd.swift_amount) /\ upd.swift_ccy # ""
    THEN [src |-> "SWIFT", amt |-> upd.swift_amount.v, ccy |-> upd.swift_ccy,
          date |-> IF upd.swift_date # 0 THEN upd.swift_date ELSE upd.date_paid]
    ELSE [src |-> "none", amt |-> 0, ccy |-> "", date |-> 0]

\* amount, currency, date and source of the transaction to create:
\* SWIFT details, else the invoice's own amount, else nothing (src = "none")
Settlement(row, upd) ==
    IF Truthy(upd.swift_amount) /\ upd.swift_ccy # ""
    THEN [src |-> "SWIFT", amt |-> upd.swift_amount.v, ccy |-> upd.swift_ccy,
          date |-> IF upd.swift_date # 0 THEN upd.swift_date ELSE upd.date_paid]
    ELSE IF InvAmt(row.amount) # 0
    THEN [src |-> "inv", amt |-> InvAmt(row.amount), ccy |-> row.ccy, date |-> upd.date_paid]
    ELSE [src |-> "none", amt |-> 0, ccy |-> "", date |-> 0]

\* the transaction apply_inv_update builds for a Paid invoice
AutoTxFor(row, upd, st, final_benef) ==
    [date |-> st.date, type |-> "Payment",
     description |-> row.invoice_no \o Dash \o row.payee,
     payee |-> row.payee, ccy |-> st.ccy, amount |-> Num(st.amt),
     fx_rate |-> IF Truthy(upd.swift_fx) THEN upd.swift_fx ELSE NoneV,
     comm |-> NoneV,
     notes |-> (IF st.src = "SWIFT" THEN AutoSwift ELSE AutoInv)
               \o (IF upd.ref # <<>> THEN Sep \o RefTag \o upd.ref ELSE <<>>),
     payer |-> <<>>,
     beneficiary |-> IF final_benef # <<>> /\ ~is_agent_company_str(final_benef)
                     THEN final_benef ELSE <<>>]

\* a variant of AutoTx that takes the beneficiary from the update alone
AutoTxUpdOnly(row, upd, st) == AutoTxFor(row, upd, st, upd.beneficiary)

AutoTx(row, upd, st) ==
    AutoTxFor(row, upd, st, IF upd.beneficiary # <<>> THEN upd.beneficiary ELSE row.benef)

\* the notes of the duplicate row after the first loop annotated it with the ref
AnnotateRef(cur, ref) ==
    IF ref # <<>> /\ ~Contains(ref, cur)
    THEN StripChars(cur \o Sep \o RefTag \o ref, {" ", "|"}) ELSE cur

\* apply_inv_update(ws, upd, wst): the two sheets after the call, the returned
\* triple (found, tx_created, dup_row; dup_row 0 for None) and whether it raised
InvReturn(wsi, wst, found, tx_created, dup_row, raised, inv) ==
    [wsi |-> wsi, wst |-> wst, found |-> found, tx_created |-> tx_created,
     dup_row |-> dup_row, raised |-> raised, inv |-> inv]

\* from the dedup check on: tx is the transaction to create, dup the row
\* _find_duplicate_tx returned
InvLinked(ws2, upd, wst, m, tx, dup) ==
    IF dup # 0
    THEN InvReturn(ws2,
                   IF m.first
                   THEN [wst EXCEPT ![dup - HeaderRows].notes = AnnotateRef(@, upd.ref)]
                   ELSE wst,
                   TRUE, FALSE, dup, FALSE, m.i)
    ELSE IF tx_raises(tx) THEN InvReturn(ws2, wst, TRUE, FALSE, 0, TRUE, m.i)
    ELSE InvReturn(ws2, apply_tx_row(wst, find_last_row(wst) + 1, tx),
                   TRUE, TRUE, 0, FALSE, m.i)

\* from "only auto-create transaction when marking as Paid" on
InvSettled(ws2, upd, wst, m, row, st) ==
    IF (m.first /\ upd.new_status # "Paid") \/ st.src = "none"
    THEN InvReturn(ws2, wst, TRUE, FALSE, 0, FALSE, m.i)
    ELSE IF st.src = "SWIFT" /\ upd.swift_amount.k = "bad"
    THEN InvReturn(ws2, wst, TRUE, FALSE, 0, TRUE, m.i)
    ELSE InvLinked(ws2, upd, wst, m, AutoTx(row, upd, st),
                   find_duplicate_tx(wst, row.payee, st.ccy, st.amt, st.date, upd.ref))

InvMarked(ws, upd, wst, m, row) ==
    InvSettled([ws EXCEPT ![m.i] = row], upd, wst, m, row, Settlement(row, upd))

InvMatched(ws, upd, wst, m) ==
    IF m.i = 0 THEN InvReturn(ws, wst, FALSE, FALSE, 0, FALSE, 0)
    ELSE InvMarked(ws, upd, wst, m, MarkInvoice(ws[m.i], upd, m.first))

apply_inv_update(ws, upd, wst) == InvMatched(ws, upd, wst, MatchedInvoice(ws, upd))

\* _compute_usd: [k, v] with k = "num" or "none" (None)
compute_usd(ccy, amount) ==
    IF amount <= 0 THEN NoneV
    ELSE Num(RoundMulDiv(amount, FxScale, get_fx(ccy)))

\* add_new_invoice(ws, inv, last_row) for last_row = find_last_row(ws)
InvoiceRow(inv, usd) ==
    [date |-> inv.date, invoice_no |-> inv.invoice_no, payee |-> inv.payee,
     ccy |-> inv.ccy, amount |-> inv.amount, usd |-> usd,
     status |-> inv.status, date_paid |-> inv.date_paid, ref |-> inv.ref,
     notes |-> inv.notes, benef |-> inv.beneficiary]

\* usd_val if usd_val else 0
OrZero(x) == IF x.k = "num" /\ x.v # 0 THEN x ELSE Num(0)

UsdCell(inv) ==
    IF inv.amount.k = "num" /\ inv.amount.v > 0 /\ inv.ccy # ""
    THEN OrZero(compute_usd(inv.ccy, inv.amount.v))
    ELSE IF inv.amount.k \in {"tbc", "none"} \/ InvAmt(inv.amount) = 0
    THEN [k |-> "tbc", v |-> 0]
    ELSE [k |-> "formula", v |-> 0]

add_new_invoice(ws, inv) == Append(ws, InvoiceRow(inv, UsdCell(inv)))

(***************************************************************************)
(* Field-level updates of existing transactions                            *)
(***************************************************************************)
\* `match_date not in date` on two date cells: both are whole date strings of
\* one format, so containment is equality
DateContains(match_date, date) == match_date = date

\* the first row apply_transaction_update acts on (index, 0 when none)
MatchedTx(ws, upd) ==
    IF upd.match_description = <<>> THEN 0
    ELSE FirstOf({ i \in 1..Len(ws) :
                     /\ \E kw \in LongWords(Lower(upd.match_description)) :
                           \/ Contains(kw, Lower(ws[i].description))
                           \/ Contains(kw, Lower(ws[i].notes))
                     /\ upd.match_date # 0 => DateContains(upd.match_date, ws[i].date) })

\* the FX correction of row i: columns G, H, J, then the balance chain from i
FxCorrectGross(ws, i, fx, opening, gross) ==
    recalc_balance_chain(
        [ws EXCEPT ![i].fx = Round5(fx), ![i].gross = gross,
                   ![i].net = Num(NetOf(ws[i].type, gross, ws[i].comm))],
        i + HeaderRows, opening)

FxCorrect(ws, i, fx, opening) ==
    FxCorrectGross(ws, i, fx, opening, GrossOf(ws[i].amount, fx))

\* the notes cell apply_transaction_update writes
\* the notes after the FX marker handling
NotesFx(notes, upd) ==
    IF Truthy(upd.fx_rate) /\ upd.fx_rate.k = "num"
    THEN StripChars(Replace(Replace(notes, PrelimRu, <<>>), PrelimEn, <<>>),
                    {" ", "|"}) \o FxConfirmed
    ELSE notes

\* the notes after the unconfirmed markers are replaced
NotesMarkers(n1) ==
    Replace(Replace(Replace(n1, WarnUnconf, OkConf), AgentNot, AgentConf), FollowUp, <<>>)

\* the notes after the confirmation stamp
NotesStamp(n3, upd) ==
    IF upd.confirmed /\ ~Contains(Confirmed, Upper(n3)) THEN n3 \o TsConfirmed ELSE n3

UpdatedNotes(notes, upd) ==
    StripChars(NotesStamp(IF upd.new_notes # <<>> THEN upd.new_notes
                          ELSE NotesMarkers(NotesFx(notes, upd)), upd),
               {" ", "|"})

\* the description cell apply_transaction_update leaves
UpdatedDesc(desc) ==
    IF Contains(Unconfirmed, desc)
    THEN Replace(Replace(desc, WarnUnconf, OkMark), Unconfirmed, Confirmed)
    ELSE desc

\* apply_transaction_update(ws, upd): the sheet after the call, the returned
\* flag and the index of the row it acted on
TxUpdated(ws, upd, opening, i) ==
    IF i = 0 THEN [ws |-> ws, found |-> FALSE, row |-> 0]
    ELSE [ws |-> [(IF Truthy(upd.fx_rate) /\ upd.fx_rate.k = "num"
                   THEN FxCorrect(ws, i, upd.fx_rate.v, opening) ELSE ws)
                  EXCEPT ![i].notes = UpdatedNotes(ws[i].notes, upd),
                         ![i].description = UpdatedDesc(ws[i].description)],
          found |-> TRUE, row |-> i]

apply_transaction_update(ws, upd, opening) == TxUpdated(ws, upd, opening, MatchedTx(ws, upd))

(***************************************************************************)
(* State                                                                   *)
(*   disk     the persisted workbook: whether the file exists, the         *)
(*            Transactions and Invoices sheets, Settings!C4 (opening)      *)
(*   pc       the position inside write_to_excel ("idle" between calls)    *)
(*   data     the change-request of the running call                       *)
(*   wb       the in-memory workbook of the running call                   *)
(*   cur      the index of the next operation in the current list of data  *)
(*   cnt      the counters tx_a, inv_u, inv_a, tx_upd, auto_tx             *)
(*   warns    dup_warnings                                                 *)
(*   ret      what the last operation of the running call returned         *)
(*   outcome  how the last call ended                                      *)
(*   saves    the number of wb.save() of the last call                     *)
(*   calls    the number of write_to_excel calls made so far               *)
(*   edits    the number of apply_edit calls made so far                   *)
(*   pending  the change-request awaiting confirmation (PENDING_FILE),     *)
(*            with the queue snapshot it was parsed from (snap is not in   *)
(*            the file: it records which messages the request covers)      *)
(*   handler  the bot handler that is running write_to_excel, "none" when  *)
(*            the caller is not modelled                                   *)
(*   msgs     the message store (DATA_FILE): the queue of forwarded        *)
(*            messages, and how many messages were stored so far           *)
(***************************************************************************)
VARIABLES disk, pc, data, wb, cur, cnt, warns, ret, outcome, saves, calls, edits,
          pending, handler, msgs

vars == <<disk, pc, data, wb, cur, cnt, warns, ret, outcome, saves, calls, edits,
          pending, handler, msgs>>

NoData == [transaction_updates |-> <<>>, new_transactions |-> <<>>,
           invoice_updates |-> <<>>, new_invoices |-> <<>>]
NoWb   == [wst |-> <<>>, wsi |-> <<>>]
NoCnt  == [tx_a |-> 0, inv_u |-> 0, inv_a |-> 0, tx_upd |-> 0, auto_tx |-> 0]
NoRet  == [op |-> "none", found |-> FALSE, tx_created |-> FALSE, dup_row |-> 0, row |-> 0]
\* load_pending() when PENDING_FILE does not exist
NoPending == [set |-> FALSE, data |-> NoData, snap |-> <<>>]
\* load_messages() when DATA_FILE does not exist
NoMsgs    == [queue |-> <<>>, n |-> 0]

\* a variant of Phases in which the new transactions come first
PhasesTxFirst == <<"tx", "tu", "inv", "newinv", "scan">>

\* the loops of write_to_excel in program order, then the duplicate scan
Phases == <<"tu", "tx", "inv", "newinv", "scan">>

OpsOf(d, phase) ==
    CASE phase = "tu"     -> d.transaction_updates
      [] phase = "tx"     -> d.new_transactions
      [] phase = "inv"    -> d.invoice_updates
      [] phase = "newinv" -> d.new_invoices
      [] OTHER            -> <<>>

\* the first loop of write_to_excel, at or after position k of Phases, that has
\* an operation to run; "scan" when none has
RECURSIVE PhaseFrom(_, _)
PhaseFrom(d, k) ==
    IF k >= Len(Phases) \/ OpsOf(d, Phases[k]) # <<>> THEN Phases[k]
    ELSE PhaseFrom(d, k + 1)

PhaseIndex(phase) == CHOOSE k \in 1..Len(Phases) : Phases[k] = phase

\* control after operation cur of the current loop has run
Advance ==
    IF cur < Len(OpsOf(data, pc))
    THEN pc' = pc /\ cur' = cur + 1
    ELSE pc' = PhaseFrom(data, PhaseIndex(pc) + 1) /\ cur' = 1

\* a variant of Raise in which the workbook is saved on the way out, as a
\* `finally: wb.save(EXCEL_FILE)` would
RaiseSaving ==
    /\ pc' = "idle" /\ outcome' = "raised"
    /\ disk' = [disk EXCEPT !.wst = wb.wst, !.wsi = wb.wsi]
    /\ saves' = saves + 1
    /\ data' = NoData /\ wb' = NoWb /\ cnt' = NoCnt
    /\ warns' = <<>> /\ ret' = NoRet
    /\ UNCHANGED <<cur, calls, edits, pending, handler, msgs>>

\* an exception leaves write_to_excel: the in-memory workbook is dropped
\* (cur keeps the index of the operation that raised)
Raise ==
    /\ pc' = "idle" /\ outcome' = "raised"
    /\ data' = NoData /\ wb' = NoWb /\ cnt' = NoCnt
    /\ warns' = <<>> /\ ret' = NoRet
    /\ UNCHANGED <<disk, cur, saves, calls, edits, pending, handler, msgs>>

(***************************************************************************)
(* write_to_excel, one step per operation of the batch                     *)
(***************************************************************************)
MaxCalls == 2
MaxEdits == 1

\* write_to_excel up to the first loop: a missing file returns at once,
\* otherwise the workbook is loaded and the counters start at zero (what the
\* caller does to pending and handler is the caller's)
write_begin(Batches) ==
    /\ pc = "idle" /\ calls < MaxCalls
    /\ calls' = calls + 1
    /\ \E d \in Batches :
         IF ~disk.exists
         THEN /\ outcome' = "missing" /\ saves' = 0
              /\ UNCHANGED <<disk, pc, data, wb, cur, cnt, warns, ret, edits>>
         ELSE /\ pc' = PhaseFrom(d, 1) /\ cur' = 1 /\ data' = d
              /\ wb' = [wst |-> disk.wst, wsi |-> disk.wsi]
              /\ cnt' = NoCnt /\ warns' = <<>> /\ ret' = NoRet
              /\ outcome' = "running" /\ saves' = 0
              /\ UNCHANGED <<disk, edits>>

\* for tu in data["transaction_updates"]: if apply_transaction_update(...): tx_upd += 1
StepTU ==
    /\ pc = "tu"
    /\ LET r == apply_transaction_update(wb.wst, data.transaction_updates[cur], disk.opening)
       IN  /\ wb' = [wb EXCEPT !.wst = r.ws]
           /\ cnt' = [cnt EXCEPT !.tx_upd = IF r.found THEN @ + 1 ELSE @]
           /\ ret' = [NoRet EXCEPT !.op = "tu", !.found = r.found,
                                   !.row = IF r.found THEN r.row + HeaderRows ELSE 0]
    /\ Advance
    /\ UNCHANGED <<disk, data, warns, outcome, saves, calls, edits, pending, handler, msgs>>

\* for tx in data["new_transactions"]: apply_tx_row(wst, find_last_row(wst) + 1, tx); tx_a += 1
StepTx ==
    /\ pc = "tx"
    /\ LET tx == data.new_transactions[cur]
       IN  IF tx_raises(tx) THEN Raise
           ELSE /\ wb' = [wb EXCEPT !.wst = apply_tx_row(@, find_last_row(@) + 1, tx)]
                /\ cnt' = [cnt EXCEPT !.tx_a = @ + 1]
                /\ ret' = [NoRet EXCEPT !.op = "tx", !.row = find_last_row(wb.wst) + 1]
                /\ Advance
                /\ UNCHANGED <<disk, data, warns, outcome, saves, calls, edits, pending, handler, msgs>>

\* a variant of CountInv that counts an update whether or not it was found
CountInvUnguarded(c, r) ==
    [c EXCEPT !.inv_u   = @ + 1,
              !.auto_tx = IF r.tx_created THEN @ + 1 ELSE @]

\* if found: inv_u += 1; if tx_created: auto_tx += 1
CountInv(c, r) ==
    [c EXCEPT !.inv_u   = IF r.found THEN @ + 1 ELSE @,
              !.auto_tx = IF r.found /\ r.tx_created THEN @ + 1 ELSE @]

\* for upd in data["invoice_updates"]: found, tx_created, dup_row = apply_inv_update(...)
StepInv ==
    /\ pc = "inv"
    /\ LET r == apply_inv_update(wb.wsi, data.invoice_updates[cur], wb.wst)
       IN  IF r.raised THEN Raise
           ELSE /\ wb' = [wst |-> r.wst, wsi |-> r.wsi]
                /\ cnt' = CountInv(cnt, r)
                /\ warns' = IF r.found /\ r.dup_row # 0
                            THEN Append(warns, <<"inv", r.dup_row, 0>>) ELSE warns
                /\ ret' = [op |-> "inv", found |-> r.found, tx_created |-> r.tx_created,
                           dup_row |-> r.dup_row,
                           row |-> IF r.found THEN r.inv + HeaderRows ELSE 0]
                /\ Advance
                /\ UNCHANGED <<disk, data, outcome, saves, calls, edits,
                                pending, handler, msgs>>

\* for inv in data["new_invoices"]: add_new_invoice(wsi, inv, find_last_row(wsi)); inv_a += 1
StepNewInv ==
    /\ pc = "newinv"
    /\ wb' = [wb EXCEPT !.wsi = add_new_invoice(@, data.new_invoices[cur])]
    /\ cnt' = [cnt EXCEPT !.inv_a = @ + 1]
    /\ ret' = [NoRet EXCEPT !.op = "newinv", !.row = find_last_row(wb.wsi) + 1]
    /\ Advance
    /\ UNCHANGED <<disk, data, warns, outcome, saves, calls, edits, pending, handler, msgs>>

\* a finite set of pairs of numbers as the sequence in lexicographic order
RECURSIVE SortedPairs(_)
SortedPairs(ps) ==
    IF ps = {} THEN <<>>
    ELSE LET p == CHOOSE x \in ps :
                    \A y \in ps : x[1] < y[1] \/ (x[1] = y[1] /\ x[2] <= y[2])
         IN  <<p>> \o SortedPairs(ps \ {p})

\* dup_pairs = _check_all_duplicates(wst); _flag_duplicate and a warning for each
StepScan ==
    /\ pc = "scan"
    /\ LET dup_pairs == check_all_duplicates(wb.wst)
           sorted    == SortedPairs(dup_pairs)
       IN  /\ wb' = [wb EXCEPT !.wst = flag_duplicates(@, dup_pairs)]
           /\ warns' = warns \o [k \in 1..Len(sorted) |->
                                   <<"scan", sorted[k][1], sorted[k][2]>>]
    /\ pc' = "recalc" /\ ret' = NoRet
    /\ UNCHANGED <<disk, data, cur, cnt, outcome, saves, calls, edits, pending, handler, msgs>>

\* if tx_a > 0 or auto_tx > 0: first_new = find_last_row(wst) - (tx_a + auto_tx);
\* if first_new >= 5: _recalc_balance_chain(wst, first_new)
StepRecalc ==
    /\ pc = "recalc"
    /\ LET first_new == find_last_row(wb.wst) - (cnt.tx_a + cnt.auto_tx)
       IN  wb' = IF (cnt.tx_a > 0 \/ cnt.auto_tx > 0) /\ first_new >= HeaderRows + 1
                 THEN [wb EXCEPT !.wst = recalc_balance_chain(@, first_new, disk.opening)]
                 ELSE wb
    /\ pc' = "save"
    /\ UNCHANGED <<disk, data, cur, cnt, warns, ret, outcome, saves, calls, edits,
                 pending, handler, msgs>>

\* wb.save(EXCEL_FILE); return tx_a, inv_u, inv_a, tx_upd, auto_tx, dup_warnings
StepSave ==
    /\ pc = "save"
    /\ disk' = [disk EXCEPT !.wst = wb.wst, !.wsi = wb.wsi]
    /\ saves' = saves + 1
    /\ pc' = "idle" /\ outcome' = "ok"
    /\ data' = NoData /\ wb' = NoWb /\ cur' = 0 /\ cnt' = NoCnt
    /\ warns' = <<>> /\ ret' = NoRet
    /\ UNCHANGED <<calls, edits, pending, handler, msgs>>

(***************************************************************************)
(* apply_edit, action = "delete" on the Transactions sheet                 *)
(***************************************************************************)
\* ws.delete_rows(row_n): the row goes, the rows below move up
delete_rows(ws, row_n) ==
    LET k == row_n - HeaderRows
    IN  IF k \in 1..Len(ws)
        THEN SubSeq(ws, 1, k - 1) \o SubSeq(ws, k + 1, Len(ws)) ELSE ws

\* load, delete_rows, _recalc_balance_chain(ws, row_n), save; row_n is the
\* handle of a data row
ApplyEditDelete ==
    /\ pc = "idle" /\ edits < MaxEdits /\ disk.exists
    /\ \E row_n \in (HeaderRows + 1)..find_last_row(disk.wst) :
         /\ disk' = [disk EXCEPT !.wst =
                       recalc_balance_chain(delete_rows(@, row_n), row_n, disk.opening)]
         /\ ret' = [NoRet EXCEPT !.op = "delete", !.row = row_n]
    /\ outcome' = "edited" /\ saves' = 1 /\ edits' = edits + 1
    /\ UNCHANGED <<pc, data, wb, cur, cnt, warns, calls, pending, handler, msgs>>

(***************************************************************************)
(* apply_edit, action = "update" on the Transactions sheet                 *)
(***************************************************************************)
\* the changes of an edit: col_B (kind), col_E (currency), col_F (amount),
\* col_G (fx rate), col_I (commission) and col_L (notes); "", NoneV and <<>>
\* stand for a key the edit does not carry
MkChange(type, ccy, amount, fx, comm) ==
    [type |-> type, ccy |-> ccy, amount |-> amount, fx |-> fx, comm |-> comm,
     notes |-> <<>>]

\* for col_name, val in changes.items(): ws.cell(row_n, col_idx, val)
EditedCells(row, ch) ==
    [row EXCEPT !.type   = IF ch.type # "" THEN ch.type ELSE @,
                !.ccy    = IF ch.ccy # "" THEN ch.ccy ELSE @,
                !.amount = IF ch.amount.k = "num" THEN ch.amount.v ELSE @,
                !.fx     = IF ch.fx.k = "num" THEN ch.fx.v ELSE @,
                !.comm   = IF ch.comm.k = "num" THEN ch.comm.v ELSE @,
                !.notes  = IF ch.notes # <<>> THEN ch.notes ELSE @]

\* the preliminary-rate marker of a row whose currency is not USD
EditNotes(cur_notes) ==
    IF \/ Contains(SubSeq(PrelimRu, 3, Len(PrelimRu)), cur_notes)
       \/ Contains(SubSeq(PrelimEn, 3, 13), cur_notes)
    THEN cur_notes
    ELSE cur_notes \o (IF cur_notes # <<>> THEN Sep ELSE <<>>) \o PrelimRu

\* the writes of columns G, H, J, K and L (column I gets back the rate it held)
EditRecomputed(ws, k, row, fx, gross, net, prev_bal) ==
    [ws EXCEPT ![k] =
        [row EXCEPT !.fx = Round5(fx), !.gross = gross, !.net = Num(net),
                    !.bal = Num(prev_bal + net),
                    !.notes = IF row.ccy # "USD" THEN EditNotes(@) ELSE @]]

EditGross(ws, row_n, row, fx, gross, opening) ==
    recalc_balance_chain(
        EditRecomputed(ws, row_n - HeaderRows, row, fx, gross,
                       NetOf(row.type, gross, row.comm),
                       OrOpening(LastNumericBal(ws, row_n), opening)),
        row_n + 1, opening)

\* `if amt and tp:` the rate is col_G of the changes, else the Settings rate of
\* the currency (not the rate the row holds); the commission is the one the
\* row holds
EditRated(ws, row_n, row, fx, opening) ==
    IF row.amount = 0 \/ row.type = ""
    THEN [ws EXCEPT ![row_n - HeaderRows] = row]
    ELSE EditGross(ws, row_n, row, fx, GrossOf(row.amount, fx), opening)

EditRow(ws, row_n, row, ch, opening) ==
    EditRated(ws, row_n, row, IF ch.fx.k = "num" THEN ch.fx.v ELSE get_fx(row.ccy),
              opening)

apply_edit_update(ws, row_n, ch, opening) ==
    EditRow(ws, row_n, EditedCells(ws[row_n - HeaderRows], ch), ch, opening)

\* load, write the changes, recompute, _recalc_balance_chain(ws, row_n + 1),
\* save; row_n is the handle of a data row
apply_edit(Changes) ==
    /\ pc = "idle" /\ edits < MaxEdits /\ disk.exists
    /\ \E row_n \in (HeaderRows + 1)..find_last_row(disk.wst), ch \in Changes :
         /\ disk' = [disk EXCEPT !.wst = apply_edit_update(@, row_n, ch, disk.opening)]
         /\ ret' = [NoRet EXCEPT !.op = "update", !.row = row_n]
    /\ outcome' = "edited" /\ saves' = 1 /\ edits' = edits + 1
    /\ UNCHANGED <<pc, data, wb, cur, cnt, warns, calls, pending, handler, msgs>>

(***************************************************************************)
(* Inputs: the change-requests the specifications draw from                *)
(***************************************************************************)
Acme  == <<"A", "c", "m", "e">>          \* a payee with a word longer than 3
Dhl   == <<"D", "H", "L">>               \* a payee without one
Topup == <<"t", "o", "p", "u", "p">>
Rent  == <<"r", "e", "n", "t", " ", "M", "a", "y">>
InvN1 == <<"N", "1">>
InvN2 == <<"N", "2">>
InvN3 == <<"N", "3">>
InvZZ == <<"Z", "Z">>                    \* no invoice carries it
RefA  == <<"R", "A">>
RefB  == <<"R", "B">>
RefA1 == <<"R", "A", " ", "1">>          \* a ref of two words

MkTx(date, type, description, payee, ccy, amount, fx_rate, comm) ==
    [date |-> date, type |-> type, description |-> description, payee |-> payee,
     ccy |-> ccy, amount |-> amount, fx_rate |-> fx_rate, comm |-> comm,
     notes |-> <<>>, payer |-> <<>>, beneficiary |-> <<>>]

MkTU(match_description, match_date, new_notes, confirmed, fx_rate) ==
    [match_description |-> match_description, match_date |-> match_date,
     new_notes |-> new_notes, confirmed |-> confirmed, fx_rate |-> fx_rate]

MkInv(date, invoice_no, payee, ccy, amount) ==
    [date |-> date, invoice_no |-> invoice_no, payee |-> payee, ccy |-> ccy,
     amount |-> amount, status |-> "Pending", date_paid |-> 0, ref |-> <<>>,
     notes |-> <<>>, beneficiary |-> <<>>]

MkUpd(invoice_no, new_status, date_paid, ref) ==
    [invoice_no |-> invoice_no, new_status |-> new_status, date_paid |-> date_paid,
     ref |-> ref, swift_amount |-> NoneV, swift_ccy |-> "", swift_date |-> 0,
     swift_fx |-> NoneV, beneficiary |-> <<>>, payee |-> <<>>]

Batch(tus, txs, upds, invs) ==
    [transaction_updates |-> tus, new_transactions |-> txs,
     invoice_updates |-> upds, new_invoices |-> invs]

\* --- the ledger specification ------------------------------------------
TxDep     == MkTx(1, "Deposit", Topup, Acme, "USD", Num(10000), NoneV, NoneV)
TxPay     == MkTx(3, "Payment", Rent, Acme, "USD", Num(9950), NoneV, NoneV)
TxNoDate  == MkTx(0, "Deposit", Topup, <<>>, "USD", Num(3000), NoneV, NoneV)
TxRub     == MkTx(5, "Cash Out", Rent, Dhl, "RUB", Num(900000), NoneV, NoneV)
TxRated   == MkTx(20, "Payment", Rent, Dhl, "EUR", Num(10000), Num(910000), Num(100))
TxBadFx   == MkTx(1, "Payment", Rent, Acme, "EUR", Num(10000), BadV, NoneV)

LedgerTxs == {TxDep, TxPay, TxNoDate, TxRub, TxRated}

TuFxTopup == MkTU(Topup, 0, <<>>, FALSE, Num(2 * FxScale))
TuFxRent  == MkTU(Rent, 20, <<>>, TRUE, Num(FxScale \div 2))
TuNote    == MkTU(Rent, 0, <<"p", "a", "i", "d">>, FALSE, NoneV)
TuBadFx   == MkTU(Topup, 0, <<>>, FALSE, BadV)

InvAcme1 == MkInv(1, InvN1, Acme, "USD", Num(100000))

\* operations that name one of the agent's own companies as the beneficiary
Balkemy  == <<"B", "a", "l", "k", "e", "m", "y", " ", "G", "T">>
TxAgent  == [MkTx(2, "Payment", Rent, Acme, "USD", Num(9950), NoneV, NoneV)
               EXCEPT !.beneficiary = Balkemy]
InvAgent == [MkInv(2, InvN2, Acme, "USD", Num(5000)) EXCEPT !.beneficiary = Balkemy]
LedgerUpd == MkUpd(InvN1, "Paid", 5, RefA)

LedgerBatches ==
    { Batch(<<>>, <<a>>, <<>>, <<>>) : a \in LedgerTxs }
    \cup { Batch(<<>>, <<a, b>>, <<>>, <<>>) : a \in {TxDep, TxPay}, b \in LedgerTxs }
    \cup { Batch(<<tu>>, <<>>, <<>>, <<>>) : tu \in {TuFxTopup, TuFxRent, TuNote, TuBadFx} }
    \cup { Batch(<<>>, <<TxDep, TxBadFx>>, <<>>, <<>>),
           Batch(<<>>, <<TxDep, TxPay, TxRated>>, <<>>, <<>>),
           Batch(<<>>, <<TxDep>>, <<>>, <<InvAcme1>>),
           Batch(<<>>, <<TxAgent>>, <<>>, <<InvAgent>>),
           Batch(<<TuFxTopup>>, <<TxPay>>, <<LedgerUpd>>, <<>>) }

Openings == {0, 10000}

Init ==
    /\ disk \in [exists : BOOLEAN, wst : {<<>>}, wsi : {<<>>}, opening : Openings]
    /\ pc = "idle" /\ data = NoData /\ wb = NoWb /\ cur = 0 /\ cnt = NoCnt
    /\ warns = <<>> /\ ret = NoRet /\ outcome = "none" /\ saves = 0 /\ calls = 0
    /\ edits = 0 /\ pending = NoPending /\ handler = "none" /\ msgs = NoMsgs

WriteBegin == write_begin(LedgerBatches) /\ UNCHANGED <<pending, handler, msgs>>

Next ==
    \/ WriteBegin
    \/ StepTU
    \/ StepTx
    \/ StepInv
    \/ StepNewInv
    \/ StepScan
    \/ StepRecalc
    \/ StepSave
    \/ ApplyEditDelete

Spec == Init /\ [][Next]_vars

\* --- the invoice specification: a register of three pending invoices ----
InvAcme2 == MkInv(1, InvN2, Acme, "USD", Num(100000))
InvDhl   == MkInv(1, InvN3, Dhl, "USD", Num(100000))
InvN4    == <<"N", "4">>
InvTbc   == MkInv(2, InvN4, Acme, "EUR", [k |-> "tbc", v |-> 0])

Register ==
    add_new_invoice(add_new_invoice(add_new_invoice(<<>>, InvAcme1), InvAcme2), InvDhl)

MkSwift(upd, payee, swift_amount, swift_ccy) ==
    [upd EXCEPT !.payee = payee, !.swift_amount = swift_amount, !.swift_ccy = swift_ccy]

UpdA    == MkUpd(InvN1, "Paid", 1, RefA)
UpdB    == MkUpd(InvN1, "Paid", 5, RefB)               \* the same invoice, another ref
UpdA1   == MkUpd(InvN1, "Paid", 1, RefA1)
UpdN2A  == MkUpd(InvN2, "Paid", 1, RefA)               \* another invoice of the payee
UpdN2B  == MkUpd(InvN2, "Paid", 5, RefB)
UpdPend == MkUpd(InvN1, "Pending", 0, <<>>)
UpdDhl  == MkUpd(InvN3, "Paid", 1, RefA)
UpdNone == MkUpd(InvZZ, "Paid", 1, RefA)               \* no number, no payee hint
UpdHint == MkSwift(UpdNone, Acme, Num(100000), "USD")  \* found by payee and amount
UpdMiss == MkSwift(UpdNone, Acme, Num(5000), "USD")    \* payee fits, amount does not
UpdBad  == MkSwift(UpdA, <<>>, BadV, "USD")            \* float(swift_amount) raises
UpdN4   == MkUpd(InvN4, "Paid", 2, RefB)               \* the invoice of unknown amount
UpdSwift == MkSwift(UpdA, <<>>, Num(92000), "EUR")     \* settled in another currency
UpdNoRef == MkUpd(InvN1, "Paid", 1, <<>>)              \* paid, no reference known

TxManual == MkTx(1, "Payment", InvN3, Dhl, "USD", Num(100000), NoneV, NoneV)

InvUpds == {UpdA, UpdB, UpdA1, UpdN2A, UpdN2B, UpdPend, UpdDhl, UpdNone, UpdHint,
            UpdMiss, UpdBad, UpdN4, UpdNoRef}

InvBatches ==
    { Batch(<<>>, <<>>, <<u>>, <<>>) : u \in InvUpds }
    \cup { Batch(<<>>, <<>>, <<u, u>>, <<>>) : u \in {UpdA, UpdA1, UpdDhl} }
    \cup { Batch(<<>>, <<>>, <<UpdA, UpdPend>>, <<>>),
           Batch(<<>>, <<>>, <<UpdA, UpdBad>>, <<>>),
           Batch(<<>>, <<>>, <<UpdN4, UpdSwift>>, <<>>),
           Batch(<<>>, <<TxManual>>, <<>>, <<>>),
           Batch(<<>>, <<TxManual, TxBadFx>>, <<>>, <<>>),
           Batch(<<TuNote>>, <<TxPay>>, <<UpdN4>>, <<InvTbc>>) }

InitInv ==
    /\ disk \in [exists : {TRUE}, wst : {<<>>}, wsi : {Register}, opening : Openings]
    /\ pc = "idle" /\ data = NoData /\ wb = NoWb /\ cur = 0 /\ cnt = NoCnt
    /\ warns = <<>> /\ ret = NoRet /\ outcome = "none" /\ saves = 0 /\ calls = 0
    /\ edits = 0 /\ pending = NoPending /\ handler = "none" /\ msgs = NoMsgs

WriteBeginInv == write_begin(InvBatches) /\ UNCHANGED <<pending, handler, msgs>>

NextInv ==
    \/ WriteBeginInv
    \/ StepTU
    \/ StepTx
    \/ StepInv
    \/ StepNewInv
    \/ StepScan
    \/ StepRecalc
    \/ StepSave

SpecInv == InitInv /\ [][NextInv]_vars

\* --- the transaction specification: new_transactions of every kind ------
Btc == "BTC"                             \* a currency the Settings table lacks

TxRubDep   == MkTx(2, "Deposit", Topup, Acme, "RUB", Num(900000), NoneV, NoneV)
TxCashIn   == MkTx(4, "Cash In", Topup, Dhl, "EUR", Num(4600), NoneV, NoneV)
TxUnknown  == MkTx(6, "Unknown", Rent, Dhl, "USD", Num(19900), NoneV, NoneV)
TxBtc      == MkTx(7, "Payment", Rent, Dhl, Btc, Num(7), Num(14), NoneV)
TxHighComm == MkTx(8, "Cash Out", Rent, Dhl, "USD", Num(5), NoneV, Num(15000))
TxNoAmount == MkTx(9, "Payment", Rent, Dhl, "USD", BadV, NoneV, NoneV)

TxGbp      == MkTx(10, "Payment", Rent, Dhl, "GBP", Num(2500), NoneV, NoneV)

\* a payment that supplies a commission rate of 0
TxZeroComm == MkTx(11, "Payment", Rent, Dhl, "USD", Num(2000), NoneV, Num(0))

TxInputs == {TxDep, TxPay, TxRub, TxRated, TxRubDep, TxCashIn, TxUnknown, TxBtc,
             TxHighComm, TxNoAmount, TxGbp, TxZeroComm}

\* 99.00 after the 100.00 of TxDep: 1% of the earlier amount, more of the later
TxNinetyNine == MkTx(2, "Payment", Rent, Acme, "USD", Num(9900), NoneV, NoneV)

TxBatches ==
    { Batch(<<>>, <<a>>, <<>>, <<>>) : a \in TxInputs }
    \cup { Batch(<<>>, <<TxDep, TxPay>>, <<>>, <<>>),
           Batch(<<>>, <<TxDep, TxNinetyNine>>, <<>>, <<>>) }

InitTx ==
    /\ disk \in [exists : {TRUE}, wst : {<<>>}, wsi : {<<>>}, opening : Openings]
    /\ pc = "idle" /\ data = NoData /\ wb = NoWb /\ cur = 0 /\ cnt = NoCnt
    /\ warns = <<>> /\ ret = NoRet /\ outcome = "none" /\ saves = 0 /\ calls = 0
    /\ edits = 0 /\ pending = NoPending /\ handler = "none" /\ msgs = NoMsgs

WriteBeginTx == write_begin(TxBatches) /\ UNCHANGED <<pending, handler, msgs>>

NextTx ==
    \/ WriteBeginTx
    \/ StepTx
    \/ StepScan
    \/ StepRecalc
    \/ StepSave

SpecTx == InitTx /\ [][NextTx]_vars

\* --- the matching specification: the register of three invoices, and ----
\* --- updates and ledger rows at the edges of the matching rules ----------
UpdRefN2 == MkUpd(InvN1, "Paid", 1, InvN2)   \* a ref that reads as another invoice's number
UpdSw3   == MkSwift(UpdA, <<>>, Num(300), "USD")       \* settled with 3.00 USD

TxNear   == MkTx(1, "Payment", Rent, Acme, "USD", Num(303), NoneV, NoneV)     \* 1% above 3.00
TxOver   == MkTx(1, "Payment", Rent, Acme, "USD", Num(101000), NoneV, NoneV)  \* 1% above 1000.00
TxTen    == MkTx(11, "Payment", Rent, Acme, "USD", Num(100000), NoneV, NoneV) \* 10 days after day 1
TxEleven == MkTx(12, "Payment", Rent, Acme, "USD", Num(100000), NoneV, NoneV) \* 11 days after day 1

\* an invoice that names its beneficiary, and updates of it that name none,
\* another one, and one of the agent's own companies
InvN5  == <<"N", "5">>
Zenit  == <<"Z", "e", "n", "i", "t">>
Orbis  == <<"O", "r", "b", "i", "s">>
InvBen == [MkInv(2, InvN5, Dhl, "USD", Num(7000)) EXCEPT !.beneficiary = Zenit]

UpdN5      == MkUpd(InvN5, "Paid", 2, RefB)
UpdN5Ben   == [UpdN5 EXCEPT !.beneficiary = Orbis]
UpdN5Agent == [UpdN5 EXCEPT !.beneficiary = Balkemy]
UpdDhlBen  == [UpdDhl EXCEPT !.beneficiary = Orbis]

\* an invoice number every row of the register contains
UpdAnyN == MkUpd(<<"N">>, "Paid", 1, RefA)

MatchBatches ==
    { Batch(<<>>, <<>>, <<u>>, <<>>) :
        u \in {UpdRefN2, UpdN2A, UpdA1, UpdHint, UpdNone,
               UpdN5, UpdN5Ben, UpdN5Agent, UpdDhlBen, UpdAnyN} }
    \cup { Batch(<<>>, <<>>, <<>>, <<InvBen>>) }
    \cup { Batch(<<>>, <<TxNear>>, <<UpdSw3>>, <<>>) }
    \cup { Batch(<<>>, <<t>>, <<UpdA>>, <<>>) : t \in {TxOver, TxTen, TxEleven} }

WriteBeginMatch == write_begin(MatchBatches) /\ UNCHANGED <<pending, handler, msgs>>

NextMatch ==
    \/ WriteBeginMatch
    \/ StepTx
    \/ StepInv
    \/ StepNewInv
    \/ StepScan
    \/ StepRecalc
    \/ StepSave

SpecMatch == InitInv /\ [][NextMatch]_vars

\* --- the edit specification: a short ledger and edits of one row --------
EdAmount == MkChange("", "", Num(5000), NoneV, NoneV)
EdZero   == MkChange("", "", Num(0), NoneV, NoneV)
EdKind   == MkChange("Deposit", "", NoneV, NoneV, NoneV)
EdCcy    == MkChange("", "EUR", NoneV, NoneV, NoneV)
EdFx     == MkChange("", "", NoneV, Num(2 * FxScale), NoneV)
EdComm   == MkChange("", "", NoneV, NoneV, Num(100))

\* an edit of the notes alone
EdNote   == [MkChange("", "", NoneV, NoneV, NoneV) EXCEPT !.notes = <<"o", "k">>]

EditChanges == {EdAmount, EdZero, EdKind, EdCcy, EdFx, EdComm, EdNote}

EditBatches ==
    { Batch(<<>>, <<TxDep>>, <<>>, <<>>),
      Batch(<<>>, <<TxRated>>, <<>>, <<>>),
      Batch(<<>>, <<TxDep, TxPay>>, <<>>, <<>>),
      Batch(<<>>, <<TxDep, TxPay, TxRated>>, <<>>, <<>>) }

WriteBeginEdit == write_begin(EditBatches) /\ UNCHANGED <<pending, handler, msgs>>

ApplyEditUpdate == apply_edit(EditChanges)

NextEdit ==
    \/ WriteBeginEdit
    \/ StepTx
    \/ StepScan
    \/ StepRecalc
    \/ StepSave
    \/ ApplyEditUpdate

SpecEdit == InitTx /\ [][NextEdit]_vars

\* --- the bot specification: the handlers around write_to_excel ---------
\* A forwarded message is [id, kind]: id numbers the messages in the order they
\* were stored; kind says what parse_messages extracts from it: a deposit
\* ("tx"), a payment whose fx_rate float() rejects ("bad") or nothing ("chat").
\* The extracted transaction is dated with the id of its message.
MaxMsgs  == 2
MsgKinds == {"tx", "bad", "chat"}

TxOfMsg(m) ==
    IF m.kind = "bad" THEN [TxBadFx EXCEPT !.date = m.id] ELSE [TxDep EXCEPT !.date = m.id]

RECURSIVE ParsedTxs(_)
ParsedTxs(q) ==
    IF q = <<>> THEN <<>>
    ELSE (IF Head(q).kind = "chat" THEN <<>> ELSE <<TxOfMsg(Head(q))>>)
         \o ParsedTxs(Tail(q))

\* parse_messages(_fmt(msgs)): the change-request extracted from the queue
parse_messages(q) == Batch(<<>>, ParsedTxs(q), <<>>, <<>>)

\* handle_message for a forwarded message: save_message(entry)
handle_message ==
    /\ pc = "idle" /\ handler = "none" /\ msgs.n < MaxMsgs
    /\ \E k \in MsgKinds :
         msgs' = [queue |-> Append(msgs.queue, [id |-> msgs.n + 1, kind |-> k]),
                  n |-> msgs.n + 1]
    /\ UNCHANGED <<disk, pc, data, wb, cur, cnt, warns, ret, outcome, saves, calls,
                   edits, pending, handler>>

\* cmd_clear: clear_messages()
cmd_clear ==
    /\ pc = "idle" /\ handler = "none" /\ msgs.queue # <<>>
    /\ msgs' = [msgs EXCEPT !.queue = <<>>]
    /\ ret' = [NoRet EXCEPT !.op = "cmd_clear"]
    /\ UNCHANGED <<disk, pc, data, wb, cur, cnt, warns, outcome, saves, calls,
                   edits, pending, handler>>

\* cmd_update: the queued messages are parsed into a change-request; with
\* nothing to apply the queue is cleared, otherwise the request is saved as
\* pending and shown with the confirmation keyboard (the queue is kept)
cmd_update ==
    /\ pc = "idle" /\ handler = "none" /\ msgs.queue # <<>>
    /\ IF parse_messages(msgs.queue).new_transactions = <<>>
       THEN /\ msgs' = [msgs EXCEPT !.queue = <<>>]
            /\ UNCHANGED pending
       ELSE /\ pending' = [set |-> TRUE, data |-> parse_messages(msgs.queue),
                           snap |-> msgs.queue]
            /\ UNCHANGED msgs
    /\ ret' = [NoRet EXCEPT !.op = "cmd_update"]
    /\ UNCHANGED <<disk, pc, data, wb, cur, cnt, warns, outcome, saves, calls,
                   edits, handler>>

\* a pending slot that is left as it is
KeepPending(slot) == slot

\* clear_pending: `if PENDING_FILE.exists(): PENDING_FILE.unlink()`
clear_pending(slot) == NoPending

\* callback_confirm, query.data == "cancel_update": clear_pending()
cancel_update ==
    /\ pc = "idle" /\ handler = "none" /\ pending.set
    /\ pending' = clear_pending(pending)
    /\ ret' = [NoRet EXCEPT !.op = "cancel_update"]
    /\ UNCHANGED <<disk, pc, data, wb, cur, cnt, warns, outcome, saves, calls,
                   edits, handler, msgs>>

\* callback_confirm, query.data == "confirm_update": data = load_pending();
\* `if not data: return` with the reply that there is nothing to write;
\* otherwise write_to_excel(data)
confirm_update ==
    /\ handler = "none"
    /\ IF pending.set
       THEN /\ write_begin({pending.data})
            /\ handler' = "callback_confirm"
       ELSE /\ pc = "idle"
            /\ outcome' = "nodata"
            /\ ret' = [NoRet EXCEPT !.op = "confirm_update"]
            /\ UNCHANGED <<disk, pc, data, wb, cur, cnt, warns, saves, calls, edits,
                           handler>>
    /\ UNCHANGED <<pending, msgs>>

\* callback_confirm once write_to_excel has returned or raised: the except
\* clause replies and returns, otherwise clear_pending() and clear_messages()
confirm_done ==
    /\ pc = "idle" /\ handler = "callback_confirm"
    /\ pending' = IF outcome = "raised" THEN pending ELSE clear_pending(pending)
    /\ msgs' = IF outcome = "raised" THEN msgs ELSE [msgs EXCEPT !.queue = <<>>]
    /\ handler' = "none"
    /\ UNCHANGED <<disk, pc, data, wb, cur, cnt, warns, ret, outcome, saves, calls, edits>>

\* _send_report (morning_job and /summary) with queued messages:
\* data = await parse_messages(_fmt(msgs)); write_to_excel(data)
send_report ==
    /\ handler = "none" /\ msgs.queue # <<>>
    /\ write_begin({parse_messages(msgs.queue)})
    /\ handler' = "morning_job" /\ UNCHANGED <<pending, msgs>>

\* _send_report once write_to_excel has returned, then clear_messages(), or
\* raised (the exception is logged): the report is sent
report_done ==
    /\ pc = "idle" /\ handler = "morning_job"
    /\ msgs' = IF outcome = "raised" THEN msgs ELSE [msgs EXCEPT !.queue = <<>>]
    /\ handler' = "none"
    /\ UNCHANGED <<disk, pc, data, wb, cur, cnt, warns, ret, outcome, saves, calls,
                   edits, pending>>

\* cmd_delete: n times, the last row whose column A is not None is deleted
\* (every row of the model holds a column A cell); wb.save(EXCEL_FILE)
DeleteCounts == {1, 2}

cmd_delete ==
    /\ pc = "idle" /\ handler = "none" /\ disk.exists
    /\ \E n \in DeleteCounts :
         disk' = [disk EXCEPT !.wst = SubSeq(@, 1, Max(Len(@) - n, 0))]
    /\ ret' = [NoRet EXCEPT !.op = "cmd_delete"]
    /\ outcome' = "deleted" /\ saves' = 1
    /\ UNCHANGED <<pc, data, wb, cur, cnt, warns, calls, edits, pending, handler, msgs>>

NextBot ==
    \/ handle_message
    \/ cmd_clear
    \/ cmd_update
    \/ cancel_update
    \/ confirm_update
    \/ StepTx
    \/ StepScan
    \/ StepRecalc
    \/ StepSave
    \/ confirm_done
    \/ send_report
    \/ report_done
    \/ cmd_delete

SpecBot == Init /\ [][NextBot]_vars

\* the handlers of the /update dialogue alone: the agent's messages, /clear,
\* /update and the callbacks of its confirmation keyboard
NextConfirm ==
    \/ handle_message
    \/ cmd_clear
    \/ cmd_update
    \/ cancel_update
    \/ confirm_update
    \/ StepTx
    \/ StepScan
    \/ StepRecalc
    \/ StepSave
    \/ confirm_done

SpecConfirm == Init /\ [][NextConfirm]_vars

(***************************************************************************)
(* Properties                                                              *)
(***************************************************************************)
\* every row of the sheet has a date
AllDated(ws) == \A i \in 1..Len(ws) : ws[i].date # 0

\* the balance row i is chained from: the opening balance B for the first row
PrevBal(ws, i, B) == IF i = 1 THEN B ELSE ws[i - 1].bal.v

\* rows from..Len(ws) each hold balance = previous balance + own net
Chained(ws, B, from) ==
    \A i \in from..Len(ws) : ws[i].bal = Num(PrevBal(ws, i, B) + AmountOf(ws[i].net))

\* C1: after write_to_excel batches on a ledger that started empty with
\* opening balance B, every stored row holds balance = balance of the row before
\* + its own net, and the first row holds B + its own net.
C1_BalanceInvariant ==
    (pc = "idle" /\ outcome = "ok" /\ edits = 0 /\ AllDated(disk.wst))
        => Chained(disk.wst, disk.opening, 1)

\* what a delete of row k (sheet index) must leave: one row less, the rows
\* before k as they were, the rows after k moved up with their balance
\* re-chained from the row preceding k
DeleteRepaired(old, new, k, B) ==
    /\ Len(new) = Len(old) - 1
    /\ \A i \in 1..(k - 1) : new[i] = old[i]
    /\ \A i \in k..Len(new) :
          new[i] = [old[i + 1] EXCEPT
                      !.bal = Num(PrevBal(new, i, B) + AmountOf(old[i + 1].net))]

\* C2: on a ledger of dated rows that satisfies the balance chain, apply_edit
\* with action = delete on data row k removes exactly that row, leaves the rows
\* before k unchanged and re-chains the balance of every row that followed k from
\* the balance of the row preceding k.
C2_DeleteRepair ==
    [][ (edits' = edits + 1 /\ AllDated(disk.wst) /\ Chained(disk.wst, disk.opening, 1))
          => DeleteRepaired(disk.wst, disk'.wst, ret'.row - HeaderRows, disk.opening) ]_vars

\* the update supplies a rate float() accepts
FxGiven(upd) == upd.fx_rate.k = "num" /\ upd.fx_rate.v # 0

\* what an FX correction of row r must leave
FxPropagated(old, new, r, fx, B) ==
    /\ Len(new) = Len(old)
    /\ new[r].fx = Round5(fx)
    /\ new[r].gross = GrossOf(old[r].amount, fx)
    /\ new[r].net = Num(NetOf(old[r].type, GrossOf(old[r].amount, fx), old[r].comm))
    /\ Chained(new, B, r)
    /\ \A i \in 1..(r - 1) : new[i] = old[i]

\* C3: when apply_transaction_update matches row r and supplies fx_rate, the
\* row's fx_rate, gross and net are recomputed from its stored amount, kind and
\* commission, the balance of row r and of every following row is re-chained,
\* and every row before r is left unchanged.
C3_FxPropagation ==
    [][ (/\ pc = "tu" /\ ret'.op = "tu" /\ ret'.found
         /\ FxGiven(data.transaction_updates[cur])
         /\ AllDated(wb.wst))
          => FxPropagated(wb.wst, wb'.wst, ret'.row - HeaderRows,
                          data.transaction_updates[cur].fx_rate.v, disk.opening) ]_vars

\* C4: the same Paid invoice update applied twice in a row creates exactly one
\* Payment row: when the first application created the row, the second returns
\* tx_created = False and adds no row.
C4_IdempotentPaid ==
    [][ (/\ pc = "inv" /\ cur > 1 /\ pc' # "idle"
         /\ data.invoice_updates[cur] = data.invoice_updates[cur - 1]
         /\ data.invoice_updates[cur].new_status = "Paid"
         /\ ret.op = "inv" /\ ret.tx_created)
          => (~ret'.tx_created /\ Len(wb'.wst) = Len(wb.wst)) ]_vars

\* the ref a row's notes carry: what follows "ref: " up to the next " | "
CarriedRef(notes) ==
    IF Contains(RefTag, notes)
    THEN Strip(SplitHead(SubSeq(notes, Find(RefTag, notes, 1) + Len(RefTag), Len(notes)),
                         Sep))
    ELSE <<>>

\* the row is a Payment to the same payee, of the same currency and amount,
\* dated within DupDays days of the settlement st
SamePayment(row, payee, st) ==
    /\ row.type = "Payment" /\ row.payee = payee
    /\ row.ccy = st.ccy /\ row.amount = st.amt
    /\ row.date > 0 /\ st.date > 0 /\ Abs(row.date - st.date) <= DupDays

\* two refs are different and neither is absent
RefsDistinct(a, b) == a # <<>> /\ b # <<>> /\ Strip(Lower(a)) # Strip(Lower(b))

\* the invoice row a Paid update settles, with an amount to settle
Settles(ws, upd, i) ==
    /\ upd.new_status = "Paid"
    /\ MatchedInvoice(ws, upd).i = i /\ i # 0
    /\ Settlement(ws[i], upd).src # "none"

\* C5: a Paid invoice update whose ref is non-empty, on a ledger whose rows are
\* payments to the same payee of the same currency and amount within 10 days,
\* each carrying a different non-empty ref, creates its own transaction row.
C5_RefDisambiguation ==
    [][ (/\ pc = "inv" /\ pc' # "idle" /\ wb.wst # <<>>
         /\ \E i \in 1..Len(wb.wsi) :
              /\ Settles(wb.wsi, data.invoice_updates[cur], i)
              /\ \A j \in 1..Len(wb.wst) :
                    /\ SamePayment(wb.wst[j], wb.wsi[i].payee,
                                   Settlement(wb.wsi[i], data.invoice_updates[cur]))
                    /\ RefsDistinct(CarriedRef(wb.wst[j].notes),
                                    data.invoice_updates[cur].ref))
          => (ret'.tx_created /\ Len(wb'.wst) = Len(wb.wst) + 1) ]_vars

\* C6: a Paid invoice update, on a ledger that holds a payment to the same
\* payee of the same currency and amount within 10 days whose ref equals the
\* update's ref or where either ref is absent, creates no transaction row,
\* returns found = True, tx_created = False and a duplicate row, and
\* write_to_excel records one duplicate warning for it.
C6_DuplicateSuppression ==
    [][ (/\ pc = "inv" /\ pc' # "idle"
         /\ \E i \in 1..Len(wb.wsi) :
              /\ Settles(wb.wsi, data.invoice_updates[cur], i)
              /\ \E j \in 1..Len(wb.wst) :
                    /\ SamePayment(wb.wst[j], wb.wsi[i].payee,
                                   Settlement(wb.wsi[i], data.invoice_updates[cur]))
                    /\ ~RefsDistinct(CarriedRef(wb.wst[j].notes),
                                     data.invoice_updates[cur].ref))
          => (/\ ret'.found /\ ~ret'.tx_created /\ ret'.dup_row # 0
              /\ Len(wb'.wst) = Len(wb.wst)
              /\ warns' = Append(warns, <<"inv", ret'.dup_row, 0>>)) ]_vars

\* s begins with p
StartsWith(s, p) == Len(p) <= Len(s) /\ SubSeq(s, 1, Len(p)) = p

\* the Payment rows of the ledger that were auto-created from the invoice
AutoRowsOf(wst, inv) ==
    { j \in 1..Len(wst) :
        /\ wst[j].type = "Payment"
        /\ wst[j].description = inv.invoice_no \o Dash \o inv.payee
        /\ (StartsWith(wst[j].notes, AutoSwift) \/ StartsWith(wst[j].notes, AutoInv)) }

\* C7: whatever status updates are applied to an invoice row, the ledger never
\* holds more than one Payment row auto-created from that invoice.
C7_OneLinkedTx ==
    \A i \in 1..Len(disk.wsi) : Cardinality(AutoRowsOf(disk.wst, disk.wsi[i])) <= 1

\* C8: once an invoice row's status is Paid, no invoice update processed by
\* apply_inv_update changes that row's status to another value.
C8_PaidTerminal ==
    [][ (pc = "inv" /\ pc' # "idle")
          => \A i \in 1..Len(wb.wsi) :
                wb.wsi[i].status = "Paid" => wb'.wsi[i].status = "Paid" ]_vars

\* no row of the register matches the update, by invoice number or stored ref
\* or, for a Paid update with a payee hint, by payee and amount
NoStrategyMatches(ws, upd) ==
    \A i \in 1..Len(ws) :
        /\ ~InvNoMatch(Strip(Lower(upd.invoice_no)), ws[i])
        /\ ~(/\ Strip(Lower(upd.payee)) # <<>> /\ upd.new_status = "Paid"
             /\ FallbackMatch(upd, ws[i]))

\* C9: an invoice update that matches no invoice row under any strategy makes
\* apply_inv_update return found = False without raising, leaves the invoice
\* register and the transaction ledger as they were, and is not counted by
\* write_to_excel.
C9_InvoiceNotFound ==
    [][ (pc = "inv" /\ NoStrategyMatches(wb.wsi, data.invoice_updates[cur]))
          => (/\ outcome' = "running"
              /\ ret'.op = "inv" /\ ~ret'.found /\ ~ret'.tx_created /\ ret'.dup_row = 0
              /\ wb' = wb /\ disk' = disk
              /\ cnt' = cnt /\ warns' = warns) ]_vars

\* an update with a payee hint was tried against a register of three invoices
\* and matched none
C9_Witness ==
    /\ pc = "scan" /\ ret.op = "inv" /\ ~ret.found
    /\ Len(data.invoice_updates) = 1 /\ data.invoice_updates[1].payee # <<>>
    /\ Len(wb.wsi) = 3 /\ wb.wsi = disk.wsi /\ cnt.inv_u = 0

\* C10: write_to_excel persists the workbook exactly once, as its last step,
\* after every operation of the batch was applied in memory; when an operation
\* raises, nothing is persisted and the stored workbook is as before the call.
C10_BatchAtomicity ==
    [][ /\ (pc # "idle" /\ disk' # disk)
            => (/\ pc = "save" /\ pc' = "idle" /\ outcome' = "ok"
                /\ saves = 0 /\ saves' = 1
                /\ disk' = [disk EXCEPT !.wst = wb.wst, !.wsi = wb.wsi])
        /\ (pc = "idle" /\ pc' # "idle") => (disk' = disk /\ saves' = 0)
        /\ (pc # "idle" /\ pc' # "idle") => (saves' = 0 /\ outcome' = "running")
        /\ (pc \notin {"idle", "save"} /\ pc' = "idle")
            => (outcome' = "raised" /\ disk' = disk /\ saves' = 0)
        /\ (pc = "save") => (pc' = "idle" /\ outcome' = "ok" /\ saves' = 1) ]_vars

\* the second operation of a batch raised after the first had been applied
C10_Witness == outcome = "raised" /\ cur = 2 /\ saves = 0 /\ pc = "idle"

\* the operation with its malformed numeric fields read as absent
Sanitized(tx) ==
    [tx EXCEPT !.fx_rate = IF @.k = "bad" THEN NoneV ELSE @,
               !.comm    = IF @.k = "bad" THEN NoneV ELSE @]

\* C11: a malformed or missing numeric field of an operation is read as
\* zero/absent: the operation is applied with the field absent, write_to_excel
\* does not raise, and every call on an existing workbook ends with the batch
\* persisted.
C11_MalformedNumbers ==
    [][ /\ (pc # "idle" /\ pc' = "idle") => (outcome' = "ok" /\ saves' = 1)
        /\ pc = "tx" =>
             wb'.wst = apply_tx_row(wb.wst, find_last_row(wb.wst) + 1,
                                    Sanitized(data.new_transactions[cur])) ]_vars

\* callback_confirm: what the caller reports after write_to_excel: the error
\* message when the call raised, the "updated" summary when it returned
confirm_reply ==
    CASE outcome = "raised"            -> "error"
      [] outcome \in {"ok", "missing"} -> "updated"
      [] OTHER                         -> "none"

\* C12: when the workbook file cannot be found, write_to_excel ends the call
\* with an error the caller tells apart from a successful apply, not with a
\* normal result.
C12_MissingDocumentFatal ==
    (~disk.exists /\ calls > 0 /\ pc = "idle") => confirm_reply = "error"

\* the place of a step in the order the batch is processed in
PhaseRank(p) ==
    CASE p = "tu"     -> 1
      [] p = "tx"     -> 2
      [] p = "inv"    -> 3
      [] p = "newinv" -> 4
      [] p = "scan"   -> 5
      [] p = "recalc" -> 6
      [] p = "save"   -> 7
      [] OTHER        -> 0

\* C13: within one batch the transaction_updates are applied before the
\* new_transactions, those before the invoice_updates, those before the
\* new_invoices, then come the duplicate scan, the balance rescan and the single
\* persist; every operation of a list runs, in list order. So a
\* transaction_update sees no transaction and an invoice_update no invoice that
\* the same batch adds.
C13_ProcessingOrder ==
    [][ /\ (pc # "idle" /\ pc' # "idle") => PhaseRank(pc) <= PhaseRank(pc')
        /\ (pc' \in {"tu", "tx", "inv", "newinv"} /\ pc' # pc) =>
              /\ cur' = 1 /\ OpsOf(data', pc') # <<>>
              /\ \A q \in {"tu", "tx", "inv", "newinv"} :
                    (PhaseRank(pc) < PhaseRank(q) /\ PhaseRank(q) < PhaseRank(pc'))
                       => OpsOf(data', q) = <<>>
        /\ (pc \in {"tu", "tx", "inv", "newinv"} /\ pc' # "idle") =>
              IF cur < Len(OpsOf(data, pc)) THEN pc' = pc /\ cur' = cur + 1
              ELSE /\ PhaseRank(pc') > PhaseRank(pc)
                   /\ \A q \in {"tu", "tx", "inv", "newinv"} :
                         (PhaseRank(pc) < PhaseRank(q) /\ PhaseRank(q) < PhaseRank(pc'))
                            => OpsOf(data, q) = <<>>
        /\ pc = "scan" => pc' = "recalc"
        /\ pc = "recalc" => pc' = "save"
        /\ pc = "save" => (pc' = "idle" /\ saves' = 1)
        /\ pc = "tu" => (/\ Len(wb.wst) = Len(disk.wst)
                         /\ ret'.row <= HeaderRows + Len(disk.wst))
        /\ pc = "inv" => (/\ Len(wb.wsi) = Len(disk.wsi)
                          /\ ret'.row <= HeaderRows + Len(disk.wsi)) ]_vars

\* a batch of all four kinds has run up to the scan: its transaction_update
\* did not find the "rent" payment and its invoice_update did not find invoice
\* N4, both added by the batch itself
C13_Witness ==
    /\ pc = "scan"
    /\ data = Batch(<<TuNote>>, <<TxPay>>, <<UpdN4>>, <<InvTbc>>)
    /\ cnt = [tx_a |-> 1, inv_u |-> 0, inv_a |-> 1, tx_upd |-> 0, auto_tx |-> 0]
    /\ wb.wst[Len(wb.wst)].description = Rent
    /\ wb.wsi[Len(wb.wsi)].invoice_no = InvN4

\* gross and net as a reader recomputes them from the stored raw fields of a row
RoundTrip(row) ==
    /\ row.gross = IF row.fx # 0 THEN RoundMulDiv(row.amount, FxScale, row.fx)
                   ELSE row.amount
    /\ row.net = Num(IF row.type \in {"Deposit", "Cash In"} THEN row.gross
                     ELSE -RoundMulDiv(row.gross, CommScale, Max(CommScale - row.comm, 1)))

\* C14: for every transaction row a write_to_excel batch has written, the
\* stored gross and net equal the values recomputed from the row's own stored
\* amount, kind, fx_rate and commission rate.
C14_RoundTrip == \A i \in 1..Len(disk.wst) : RoundTrip(disk.wst[i])

\* the fixed schedule: 0% inbound, 0.4% in the low-commission currency, else 0.5%
Schedule(tp, ccy) ==
    IF tp \in {"Deposit", "Cash In"} THEN 0
    ELSE IF ccy = "RUB" THEN 40 ELSE 50

\* C15: when a new transaction supplies no commission rate, the stored rate is
\* 0% for a Deposit or Cash In row whatever the currency, 0.4% for any other
\* kind in RUB, and 0.5% for every other kind and currency.
C15_CommissionSchedule ==
    [][ (/\ pc = "tx" /\ Len(wb'.wst) = Len(wb.wst) + 1
         /\ data.new_transactions[cur].comm.k = "none")
          => wb'.wst[Len(wb'.wst)].comm
               = Schedule(data.new_transactions[cur].type,
                          data.new_transactions[cur].ccy) ]_vars

\* the row apply_tx_row appended in this step
Appended(old, new) == new[Len(new)]

\* C16: every row apply_tx_row writes has net = gross for a Deposit or Cash In
\* and net = -(gross / max(1 - commission, 0.0001)) for every other kind; with
\* amount >= 0 and a positive rate, an inbound row does not lower the running
\* balance and an outbound row does not raise it.
C16_NetFormula ==
    [][ (pc \in {"tx", "inv"} /\ Len(wb'.wst) = Len(wb.wst) + 1) =>
          /\ Appended(wb.wst, wb'.wst).net
               = Num(IF Appended(wb.wst, wb'.wst).type \in {"Deposit", "Cash In"}
                     THEN Appended(wb.wst, wb'.wst).gross
                     ELSE -RoundMulDiv(Appended(wb.wst, wb'.wst).gross, CommScale,
                                       Max(CommScale - Appended(wb.wst, wb'.wst).comm, 1)))
          /\ Appended(wb.wst, wb'.wst).amount >= 0 =>
               IF Appended(wb.wst, wb'.wst).type \in {"Deposit", "Cash In"}
               THEN Appended(wb.wst, wb'.wst).bal.v >= PrevBal(wb'.wst, Len(wb'.wst), 0)
               ELSE Appended(wb.wst, wb'.wst).bal.v <= PrevBal(wb'.wst, Len(wb'.wst), 0) ]_vars

\* the ledger holds an inbound row followed by an outbound row whose commission
\* rate exceeds 1, so that the 0.0001 floor of the divisor applies
C16_Witness ==
    /\ pc = "idle" /\ Len(disk.wst) = 2
    /\ disk.wst[1].type = "Cash In" /\ disk.wst[1].net.v > 0
    /\ disk.wst[2].type = "Cash Out" /\ disk.wst[2].comm > CommScale
    /\ disk.wst[2].net.v < 0 - disk.wst[2].gross

\* the update supplies settlement details: an amount and a currency
SettlementGiven(upd) == Truthy(upd.swift_amount) /\ upd.swift_ccy # ""

\* C17: on a transition to Paid, the auto-created transaction carries the
\* update's settlement amount and currency when supplied, otherwise the invoice
\* row's own amount and currency; when neither yields an amount, no transaction
\* is created while the invoice is still matched and marked Paid.
C17_SettlementPriority ==
    [][ (/\ pc = "inv" /\ ret'.op = "inv" /\ ret'.found
         /\ data.invoice_updates[cur].new_status = "Paid") =>
          /\ ret'.tx_created =>
               /\ Len(wb'.wst) = Len(wb.wst) + 1
               /\ IF SettlementGiven(data.invoice_updates[cur])
                  THEN /\ wb'.wst[Len(wb'.wst)].amount
                            = data.invoice_updates[cur].swift_amount.v
                       /\ wb'.wst[Len(wb'.wst)].ccy = data.invoice_updates[cur].swift_ccy
                  ELSE /\ wb.wsi[ret'.row - HeaderRows].amount.k = "num"
                       /\ wb'.wst[Len(wb'.wst)].amount
                            = wb.wsi[ret'.row - HeaderRows].amount.v
                       /\ wb'.wst[Len(wb'.wst)].amount # 0
                       /\ wb'.wst[Len(wb'.wst)].ccy = wb.wsi[ret'.row - HeaderRows].ccy
          /\ (/\ ~SettlementGiven(data.invoice_updates[cur])
              /\ (wb.wsi[ret'.row - HeaderRows].amount.k # "num"
                    \/ wb.wsi[ret'.row - HeaderRows].amount.v = 0)) =>
               /\ ~ret'.tx_created /\ wb'.wst = wb.wst
               /\ wb'.wsi[ret'.row - HeaderRows].status = "Paid" ]_vars

\* invoice N4 of unknown amount was marked Paid without a transaction, then
\* invoice N1 (USD 1000.00) was settled by a transaction of the SWIFT amount
\* EUR 920.00
C17_Witness ==
    /\ ret.op = "inv" /\ ret.tx_created /\ cur = 1 /\ pc = "scan"
    /\ data.invoice_updates = <<UpdN4, UpdSwift>>
    /\ Len(wb.wsi) = 4 /\ wb.wsi[4].status = "Paid" /\ wb.wsi[4].amount.k = "tbc"
    /\ cnt.inv_u = 2 /\ cnt.auto_tx = 1
    /\ wb.wsi[1].amount = Num(100000) /\ wb.wsi[1].ccy = "USD"
    /\ wb.wst[Len(wb.wst)].amount = 92000 /\ wb.wst[Len(wb.wst)].ccy = "EUR"

\* C18: whenever apply_inv_update suppresses the creation of a transaction
\* because of a duplicate row and the update carries a ref that the row's notes
\* do not hold yet, the ref is appended to that row's notes, whichever strategy
\* located the invoice.
C18_DuplicateAnnotation ==
    [][ (/\ pc = "inv" /\ ret'.op = "inv" /\ ret'.found /\ ret'.dup_row # 0
         /\ data.invoice_updates[cur].ref # <<>>
         /\ ~Contains(data.invoice_updates[cur].ref,
                      wb.wst[ret'.dup_row - HeaderRows].notes))
          => /\ ~ret'.tx_created /\ Len(wb'.wst) = Len(wb.wst)
             /\ Contains(RefTag \o data.invoice_updates[cur].ref,
                         wb'.wst[ret'.dup_row - HeaderRows].notes) ]_vars

\* the text holds one of the denylisted company name fragments
NamesAgent(text) == \E token \in AgentCoTokens : Contains(token, Lower(text))

\* C19: after any sequence of write_to_excel batches, no transaction row and no
\* invoice row holds a beneficiary that contains one of the denylisted
\* intermediary company name fragments.
C19_BeneficiaryNotAgent ==
    /\ \A i \in 1..Len(disk.wst) : ~NamesAgent(disk.wst[i].benef)
    /\ \A i \in 1..Len(disk.wsi) : ~NamesAgent(disk.wsi[i].benef)

\* C20: on every matched invoice status update, the invoice row's status,
\* date_paid and payment reference are overwritten with the update's new_status,
\* date_paid and ref, whatever the row held before and whichever of these fields
\* the update supplies.
C20_UnconditionalStatusFields ==
    [][ (pc = "inv" /\ ret'.op = "inv" /\ ret'.found) =>
          /\ wb'.wsi[ret'.row - HeaderRows].status
               = data.invoice_updates[cur].new_status
          /\ wb'.wsi[ret'.row - HeaderRows].date_paid
               = data.invoice_updates[cur].date_paid
          /\ wb'.wsi[ret'.row - HeaderRows].ref = data.invoice_updates[cur].ref ]_vars

\* the row matches the update's invoice number, in either direction
ByNumber(inv_no, row) ==
    /\ inv_no # <<>>
    /\ \/ Contains(inv_no, Strip(Lower(row.invoice_no)))
       \/ /\ Strip(Lower(row.invoice_no)) # <<>>
          /\ Contains(Strip(Lower(row.invoice_no)), inv_no)

\* the row matches the update's invoice number by its stored payment reference
ByReference(inv_no, row) ==
    /\ inv_no # <<>> /\ Strip(Lower(row.ref)) # <<>>
    /\ \/ Contains(inv_no, Strip(Lower(row.ref)))
       \/ Contains(Strip(Lower(row.ref)), inv_no)

\* the invoice row chosen for inv_no is one of the layer the claim gives
\* priority to: by number if any row matches by number, else by reference if
\* any row matches by reference, else any row
Layered(ws, inv_no, i) ==
    /\ (\E j \in 1..Len(ws) : ByNumber(inv_no, ws[j])) => ByNumber(inv_no, ws[i])
    /\ (~ByNumber(inv_no, ws[i]) /\ ~ByReference(inv_no, ws[i]))
          => \A j \in 1..Len(ws) : ~ByNumber(inv_no, ws[j]) /\ ~ByReference(inv_no, ws[j])

\* C21: the invoice row apply_inv_update selects matches the update's invoice
\* number whenever some row of the register does (a row that matches only by
\* its stored payment reference is not preferred to it), and a row found by the
\* payee-and-amount fallback is selected only when no row matches by invoice
\* number or by reference.
C21_LayeredMatching ==
    [][ (pc = "inv" /\ ret'.op = "inv" /\ ret'.found)
          => Layered(wb.wsi, Strip(Lower(data.invoice_updates[cur].invoice_no)),
                     ret'.row - HeaderRows) ]_vars

\* the two sheets hold the same rows in the same order, up to the notes column
SameButNotes(old, new) ==
    /\ Len(new) = Len(old)
    /\ \A i \in 1..Len(old) : [new[i] EXCEPT !.notes = old[i].notes] = old[i]

\* C22: the ledger-wide duplicate scan removes, adds and reorders no transaction
\* row and changes no column of any row but its notes; the invoice sheet and the
\* persisted workbook are left alone, and each flagged pair adds one warning to
\* the result.
C22_AdvisoryScan ==
    [][ pc = "scan" =>
          /\ SameButNotes(wb.wst, wb'.wst)
          /\ wb'.wsi = wb.wsi /\ disk' = disk
          /\ Len(warns') = Len(warns) + Cardinality(check_all_duplicates(wb.wst))
          /\ \A k \in 1..Len(warns) : warns'[k] = warns[k] ]_vars

\* the scan has just flagged a pair of rows: both carry the flag in their notes
\* and the pair is among the warnings
C22_Witness ==
    /\ pc = "recalc" /\ warns # <<>>
    /\ \E k \in 1..Len(warns) :
          /\ warns[k][1] = "scan"
          /\ Contains(PossDup, wb.wst[warns[k][2] - HeaderRows].notes)
          /\ Contains(PossDup, wb.wst[warns[k][3] - HeaderRows].notes)

\* rules 1-4 of the detector between rows a and b: both kinds are Payment or
\* Deposit and _find_duplicate_tx, called without a ref for b's payee, currency,
\* amount and date, accepts row a
AcceptedFor(a, b) ==
    /\ b.type \in {"Payment", "Deposit"}
    /\ IsDuplicateOf(a, Strip(Lower(b.payee)), b.ccy, b.amount, b.date, <<>>)

\* C23: the ledger-wide scan flags a pair of dated rows (a before b) if and only
\* if rules 1-4 of the duplicate detector hold between them, that is exactly
\* when _find_duplicate_tx called without a ref for row b's fields accepts row a.
C23_ScanEqualsRules ==
    [][ pc = "scan" =>
          \A i, j \in 1..Len(wb.wst) :
              (i < j /\ wb.wst[i].date # 0 /\ wb.wst[j].date # 0)
                => (<<i + HeaderRows, j + HeaderRows>> \in check_all_duplicates(wb.wst)
                      <=> AcceptedFor(wb.wst[i], wb.wst[j])) ]_vars

\* rules 1-5 between a ledger row and a candidate payment, as stated: kind,
\* token overlap, same currency and amounts strictly within 1% of the
\* candidate's, dates within DupDays days when both parse, and no different
\* non-empty ref carried in the row's notes
RulesHold(row, payee, st, ref) ==
    /\ row.type \in {"Payment", "Deposit"}
    /\ PayeeMatch(Strip(Lower(payee)), row)
    /\ row.ccy = st.ccy
    /\ Abs(st.amt - row.amount) * 100 < Max(st.amt, 100)
    /\ DateMatch(row, st.date)
    /\ ~RefsDistinct(CarriedRef(row.notes), ref)

\* C24: when a Paid invoice update runs the duplicate detector, the row it
\* reports is the first ledger row for which rules 1-5 hold, and it reports none
\* exactly when no row satisfies them: a row exactly 1% away from the candidate
\* amount is not reported, a row dated exactly 10 days away is.
C24_DetectorExactness ==
    [][ (pc = "inv" /\ ret'.op = "inv" /\ ret'.found)
          => \A i \in 1..Len(wb.wsi) :
                Settles(wb.wsi, data.invoice_updates[cur], i)
                  => ret'.dup_row
                       = RowOf(FirstOf({ j \in 1..Len(wb.wst) :
                             RulesHold(wb.wst[j], wb.wsi[i].payee,
                                       Settlement(wb.wsi[i], data.invoice_updates[cur]),
                                       data.invoice_updates[cur].ref) })) ]_vars

\* the sheet indices of the rows that hold a numeric running balance
NumericRows(ws) == { i \in 1..Len(ws) : ws[i].bal.k = "num" }

\* C26: on every persisted ledger with at least one row holding a numeric
\* running balance, get_balance_from_excel returns the balance and date of the
\* last such row; it reports no balance only when no row has a numeric balance.
C26_CurrentBalance ==
    (pc = "idle" /\ disk.exists) =>
        IF NumericRows(disk.wst) = {}
        THEN get_balance_from_excel(disk) = NoBalance
        ELSE get_balance_from_excel(disk)
               = [k |-> "some",
                  bal |-> disk.wst[LastOf(NumericRows(disk.wst))].bal.v,
                  date |-> disk.wst[LastOf(NumericRows(disk.wst))].date]

\* C27: every stored transaction row has fx_rate > 0 and a commission rate in
\* [0, 1), whatever fx_rate and commission the change-requests supplied.
C27_RateDomains ==
    \A i \in 1..Len(disk.wst) :
        /\ disk.wst[i].fx > 0
        /\ disk.wst[i].comm >= 0 /\ disk.wst[i].comm < CommScale

\* C28: a new transaction that supplies no fx_rate (its other fields being
\* well-formed) in a currency absent from the FX table raises no error: the row
\* is created with fx_rate 1.0 and gross_usd equal to the amount.
C28_SilentFxFallback ==
    [][ (/\ pc = "tx"
         /\ data.new_transactions[cur].fx_rate.k = "none"
         /\ data.new_transactions[cur].comm.k # "bad"
         /\ data.new_transactions[cur].ccy \notin FxCcys)
          => /\ outcome' = "running"
             /\ Len(wb'.wst) = Len(wb.wst) + 1
             /\ wb'.wst[Len(wb'.wst)].ccy = data.new_transactions[cur].ccy
             /\ wb'.wst[Len(wb'.wst)].fx = FxScale
             /\ wb'.wst[Len(wb'.wst)].gross = wb'.wst[Len(wb'.wst)].amount ]_vars

\* a row in a currency the FX table lacks has just been created at the rate 1.0
C28_Witness ==
    /\ ret.op = "tx" /\ wb.wst # <<>>
    /\ wb.wst[Len(wb.wst)].ccy = "GBP"
    /\ wb.wst[Len(wb.wst)].fx = FxScale
    /\ wb.wst[Len(wb.wst)].gross = 2500

\* C29: after apply_edit has updated the amount, currency, fx_rate, commission
\* rate or kind of transaction row r, the stored gross and net of row r equal
\* the values computed from its stored amount, kind, fx_rate and commission, and
\* row r and every following row hold balance = previous balance + own net.
C29_EditRepair ==
    [][ (edits' = edits + 1 /\ ret'.op = "update")
          => /\ RoundTrip(disk'.wst[ret'.row - HeaderRows])
             /\ Chained(disk'.wst, disk.opening, ret'.row - HeaderRows) ]_vars

\* the previous balance for sheet index i: the balance of the last earlier row
\* that holds a numeric one (a balance of 0 included), the opening balance B
\* only when no earlier row holds a numeric balance
PrevOrOpening(ws, i, B) ==
    IF \E j \in 1..(i - 1) : ws[j].bal.k = "num"
    THEN ws[LastOf({ j \in 1..(i - 1) : ws[j].bal.k = "num" })].bal.v
    ELSE B

\* C30: whenever apply_tx_row, apply_edit or _recalc_balance_chain computes the
\* balance of a row, the previous balance it adds the row's net to is the
\* balance of the last earlier row holding a numeric balance (also when that
\* balance is exactly 0), and the configured opening balance if and only if no
\* earlier row holds one.
C30_OpeningBalanceUse ==
    [][ /\ (pc = "tx" /\ Len(wb'.wst) = Len(wb.wst) + 1)
            => wb'.wst[Len(wb'.wst)].bal
                 = Num(PrevOrOpening(wb.wst, Len(wb'.wst), disk.opening)
                       + AmountOf(wb'.wst[Len(wb'.wst)].net))
        /\ (edits' = edits + 1 /\ ret'.op = "update"
              /\ disk'.wst[ret'.row - HeaderRows].amount # 0)
            => \A i \in (ret'.row - HeaderRows)..Len(disk'.wst) :
                 disk'.wst[i].bal
                   = Num(PrevOrOpening(disk'.wst, i, disk.opening)
                         + AmountOf(disk'.wst[i].net))
        /\ (pc = "recalc" /\ wb'.wst # wb.wst)
            => \A i \in (find_last_row(wb.wst) - (cnt.tx_a + cnt.auto_tx) - HeaderRows)
                          ..Len(wb'.wst) :
                 wb'.wst[i].bal
                   = Num(PrevOrOpening(wb'.wst, i, disk.opening)
                         + AmountOf(wb'.wst[i].net)) ]_vars

\* C25: the persisted workbook is modified (rows added, updated or deleted)
\* only by a write that callback_confirm is running for the pending
\* change-request the user confirmed; no command handler and no scheduled job
\* modifies it otherwise.
C25_ConfirmationBeforeWriting ==
    [][ (disk'.wst # disk.wst \/ disk'.wsi # disk.wsi)
          => (handler = "callback_confirm" /\ pending.set /\ data = pending.data) ]_vars

\* the balance row i of a recalc from index f is chained from: for row f the
\* anchor the function starts with, for a later row the balance just written
\* to the row before it
RecalcPrev(old, new, f, i, B) ==
    IF i = f THEN OrOpening(LastNumericBal(old, f + HeaderRows), B) ELSE new[i - 1].bal.v

\* what _recalc_balance_chain from index f must leave: every row at or after f
\* holds balance = previous balance + own net, no row before f and no other
\* column is touched
RecalcCovers(old, new, f, B) ==
    /\ Len(new) = Len(old)
    /\ \A i \in f..Len(new) :
          new[i].bal = Num(RecalcPrev(old, new, f, i, B) + AmountOf(old[i].net))
    /\ \A i \in 1..(f - 1) : new[i] = old[i]
    /\ \A i \in 1..Len(old) : [new[i] EXCEPT !.bal = old[i].bal] = old[i]

\* C31: _recalc_balance_chain(ws, from_row) re-derives the balance of every
\* populated transaction row at or after from_row (every row find_last_row
\* counts as data) and changes nothing else: no row before from_row and no
\* column other than the balance.
C31_RecalcCoverageFrame ==
    [][ /\ (/\ pc = "recalc" /\ (cnt.tx_a > 0 \/ cnt.auto_tx > 0)
            /\ find_last_row(wb.wst) - (cnt.tx_a + cnt.auto_tx) >= HeaderRows + 1)
            => RecalcCovers(wb.wst, wb'.wst,
                            find_last_row(wb.wst) - (cnt.tx_a + cnt.auto_tx) - HeaderRows,
                            disk.opening)
        /\ (edits' = edits + 1 /\ ret'.op = "delete")
            => RecalcCovers(delete_rows(disk.wst, ret'.row), disk'.wst,
                            ret'.row - HeaderRows, disk.opening) ]_vars

\* C32: the balance apply_tx_row stores for a row appended at the tail equals
\* the balance _recalc_balance_chain run from the first data row computes for
\* that row, for every ledger state and opening balance.
C32_TailAppendEquivalence ==
    [][ (pc = "tx" /\ Len(wb'.wst) = Len(wb.wst) + 1)
          => wb'.wst[Len(wb'.wst)].bal
               = recalc_balance_chain(wb'.wst, HeaderRows + 1,
                                      disk.opening)[Len(wb'.wst)].bal ]_vars

\* C33: when a new transaction supplies an fx_rate > 0 or a commission rate in
\* [0, 1), a commission rate of 0 included, the row stores the supplied value
\* (the fx_rate to 5 decimals); the FX table and the commission schedule are
\* not consulted for a supplied field.
C33_SuppliedRatesHonoured ==
    [][ (pc = "tx" /\ Len(wb'.wst) = Len(wb.wst) + 1) =>
          /\ (data.new_transactions[cur].fx_rate.k = "num"
                /\ data.new_transactions[cur].fx_rate.v > 0)
               => wb'.wst[Len(wb'.wst)].fx = Round5(data.new_transactions[cur].fx_rate.v)
          /\ (data.new_transactions[cur].comm.k = "num"
                /\ data.new_transactions[cur].comm.v >= 0
                /\ data.new_transactions[cur].comm.v < CommScale)
               => wb'.wst[Len(wb'.wst)].comm = data.new_transactions[cur].comm.v ]_vars

\* the beneficiary a created transaction inherits: the update's when it
\* supplies one, else the one stored on the invoice row; a name of one of the
\* agent's own companies is never written
Inherited(from_upd, stored) ==
    IF NamesAgent(IF from_upd # <<>> THEN from_upd ELSE stored) THEN <<>>
    ELSE IF from_upd # <<>> THEN from_upd ELSE stored

\* C34: a transaction auto-created from a Paid invoice carries the update's
\* beneficiary when the update supplies one, and otherwise the beneficiary
\* stored on the invoice row.
C34_BeneficiaryInheritance ==
    [][ (pc = "inv" /\ ret'.op = "inv" /\ ret'.tx_created)
          => /\ Len(wb'.wst) = Len(wb.wst) + 1
             /\ wb'.wst[Len(wb'.wst)].benef
                  = Inherited(data.invoice_updates[cur].beneficiary,
                              wb.wsi[ret'.row - HeaderRows].benef) ]_vars

\* an update that names no beneficiary has just settled the invoice that
\* stores one, and the created transaction carries the stored name
C34_Witness ==
    /\ pc = "scan" /\ ret.op = "inv" /\ ret.tx_created
    /\ data.invoice_updates = <<UpdN5>>
    /\ wb.wsi[ret.row - HeaderRows].benef = Zenit
    /\ wb.wst[Len(wb.wst)].benef = Zenit

\* C34 as stated, without the exception for the agent's own companies: the
\* created transaction carries the update's beneficiary whenever the update
\* supplies one, else the one stored on the invoice row
C34_AsStated ==
    [][ (pc = "inv" /\ ret'.op = "inv" /\ ret'.tx_created)
          => wb'.wst[Len(wb'.wst)].benef
               = (IF data.invoice_updates[cur].beneficiary # <<>>
                  THEN data.invoice_updates[cur].beneficiary
                  ELSE wb.wsi[ret'.row - HeaderRows].benef) ]_vars

\* the edit carries no financial column: kind, currency, amount, fx rate and
\* commission are all absent from its changes
NonFinancial(ch) ==
    /\ ch.type = "" /\ ch.ccy = "" /\ ch.amount.k = "none"
    /\ ch.fx.k = "none" /\ ch.comm.k = "none"

\* C35: apply_edit with action = update that changes only non-financial
\* columns of a transaction row leaves that row's fx_rate, gross, commission
\* rate and net, and the balance of every row, unchanged, also when the row
\* holds an fx_rate that differs from the FX table.
C35_NonFinancialEditFrame ==
    [][ (/\ edits' = edits + 1 /\ ret'.op = "update"
         /\ \E ch \in EditChanges :
               /\ NonFinancial(ch)
               /\ disk'.wst = apply_edit_update(disk.wst, ret'.row, ch, disk.opening))
          => /\ Len(disk'.wst) = Len(disk.wst)
             /\ disk'.wst[ret'.row - HeaderRows].fx = disk.wst[ret'.row - HeaderRows].fx
             /\ disk'.wst[ret'.row - HeaderRows].gross = disk.wst[ret'.row - HeaderRows].gross
             /\ disk'.wst[ret'.row - HeaderRows].comm = disk.wst[ret'.row - HeaderRows].comm
             /\ disk'.wst[ret'.row - HeaderRows].net = disk.wst[ret'.row - HeaderRows].net
             /\ \A i \in 1..Len(disk.wst) : disk'.wst[i].bal = disk.wst[i].bal ]_vars

\* the ledger rows that hold the transaction extracted from message id (the
\* transaction of a message is dated with its id)
RowsOfMsg(ws, id) == { i \in 1..Len(ws) : ws[i].date = id }

\* C36: for every interleaving of /update (cmd_update), the report job
\* (_send_report) and the confirmation callback, the transactions parsed from
\* the queued messages are appended to the ledger at most once: the ledger
\* never holds two rows for the transaction of one message.
C36_BatchAppliedOnce ==
    \A id \in 1..msgs.n : Cardinality(RowsOfMsg(disk.wst, id)) <= 1

\* message m is one of the queued messages q
InQueue(q, m) == \E i \in 1..Len(q) : q[i] = m

\* the queued messages that a step removes from the queue
Removed == { m \in [id : 1..MaxMsgs, kind : MsgKinds] :
               InQueue(msgs.queue, m) /\ ~InQueue(msgs'.queue, m) }

\* C37: a message leaves the queue only by /clear, or by /update finding
\* nothing to apply in a queue that holds it, or after a change-request parsed
\* from a queue snapshot that holds it has been written to the workbook (by
\* the confirmation callback or by the report job); a message forwarded after
\* /update, or queued while the workbook is missing, is never discarded.
C37_NoMessageLost ==
    [][ \A m \in Removed :
          \/ cmd_clear
          \/ cmd_update /\ parse_messages(msgs.queue).new_transactions = <<>>
          \/ confirm_done /\ outcome = "ok" /\ InQueue(pending.snap, m)
          \/ report_done /\ outcome = "ok" ]_vars

\* C38: a confirmation callback that has persisted the pending change-request
\* empties the pending slot in its next step, before any other handler runs;
\* a confirmation callback that finds the slot empty writes nothing; cancel
\* empties the slot and leaves the workbook alone; the workbook changes only
\* under a confirmation callback applying the request held in the slot; so
\* under confirm and cancel callbacks alone no message's transaction is
\* appended to the ledger twice.
C38_PendingAppliedOnce ==
    /\ [][ /\ (handler = "callback_confirm" /\ outcome = "ok")
                => (handler' = "none" /\ pending' = NoPending /\ disk' = disk)
           /\ (confirm_update /\ ~pending.set)
                => (disk' = disk /\ wb' = wb /\ pc' = "idle" /\ handler' = "none")
           /\ cancel_update => (pending' = NoPending /\ disk' = disk /\ wb' = wb)
           /\ (disk' # disk)
                => (handler = "callback_confirm" /\ pending.set /\ data = pending.data)
         ]_vars
    /\ [](\A id \in 1..msgs.n : Cardinality(RowsOfMsg(disk.wst, id)) <= 1)

\* a request was confirmed and persisted, and a second confirmation found the
\* slot empty and wrote nothing
C38_Witness ==
    /\ handler = "none" /\ ~pending.set /\ outcome = "nodata"
    /\ ret.op = "confirm_update" /\ Len(disk.wst) = 1 /\ calls = 1

\* the invoice rows that match the update by invoice number or reference, and
\* the first row in register order the update can act on (0 when none)
RowsByNo(ws, upd) == { i \in 1..Len(ws) : InvNoMatch(Strip(Lower(upd.invoice_no)), ws[i]) }

FirstMatching(ws, upd) ==
    IF RowsByNo(ws, upd) # {} THEN FirstOf(RowsByNo(ws, upd)) ELSE MatchedByPayee(ws, upd)

ChangedInvRows == { i \in 1..Len(wb.wsi) : wb'.wsi[i] # wb.wsi[i] }

\* C39: one invoice_update processed by apply_inv_update changes at most one
\* row of the invoice register, and only the first matching row in register
\* order, adds no invoice row, and appends at most one transaction row, also
\* when several invoice rows match its number, reference or payee.
C39_OneUpdateOneRow ==
    [][ pc = "inv" =>
          /\ Len(wb'.wsi) = Len(wb.wsi)
          /\ Cardinality(ChangedInvRows) <= 1
          /\ ChangedInvRows \subseteq {FirstMatching(wb.wsi, data.invoice_updates[cur])}
          /\ Len(wb'.wst) <= Len(wb.wst) + 1 ]_vars

\* an update whose invoice number all three rows of the register contain has
\* marked the first row alone and created its transaction
C39_Witness ==
    /\ ret.op = "inv" /\ ret.found /\ ret.tx_created /\ ret.row = HeaderRows + 1
    /\ data.invoice_updates = <<UpdAnyN>>
    /\ Cardinality(RowsByNo(wb.wsi, UpdAnyN)) = 3
    /\ wb.wsi[1].status = "Paid" /\ wb.wsi[2].status # "Paid" /\ wb.wsi[3].status # "Paid"
    /\ Len(wb.wst) = 1

\* C40: running _recalc_balance_chain(ws, from_row) a second time with the
\* same from_row changes nothing: for the ledger of every state, every
\* from_row from the first data row to the row after the last one, and every
\* opening balance, the second run returns the ledger the first run returned.
C40_RecalcIdempotent ==
    \A from_row \in (HeaderRows + 1)..(HeaderRows + Len(wb.wst) + 1), o \in Openings :
        recalc_balance_chain(recalc_balance_chain(wb.wst, from_row, o), from_row, o)
            = recalc_balance_chain(wb.wst, from_row, o)

\* write_to_excel has recalculated the chain of a ledger with a non-zero
\* opening balance after appending to it: the balances of the stored row and
\* of the appended row were rewritten (they now include the opening, which
\* apply_tx_row had left out)
C40_Witness ==
    /\ pc = "save" /\ Len(disk.wst) = 1 /\ Len(wb.wst) = 2 /\ disk.opening # 0
    /\ wb.wst[1].date # 0 /\ wb.wst[2].date # 0
    /\ AmountOf(wb.wst[1].net) # 0 /\ AmountOf(wb.wst[2].net) # 0
    /\ disk.wst[1].bal = Num(AmountOf(wb.wst[1].net))
    /\ wb.wst[1].bal = Num(disk.opening + AmountOf(wb.wst[1].net))
    /\ wb.wst[2].bal = Num(disk.opening + AmountOf(wb.wst[1].net) + AmountOf(wb.wst[2].net))

=============================================================================
